---- MODULE Spec2Model ----
(***************************************************************************)
(* Verification model of the entity-resolution and record-merging layer    *)
(* of the MappingGlobalChina pipeline:                                     *)
(*   scripts/08a_parents_master_merge.py      (SpecMerge, SpecParents)     *)
(*   scripts/08b_subsidiaries_master_merge.py (SpecNorm, SpecSubs,         *)
(*                                             SpecOwnership)              *)
(*   scripts/09_qc_and_reports.py             (SpecQC)                     *)
(*   scripts/02_resolve_cik.py                (SpecResolve)                *)
(*   scripts/06_parse_ex21_subs.py            (SpecHeader, SpecRows,       *)
(*                                             SpecEx21)                   *)
(*   scripts/07_parse_ex3_charters.py         (SpecPotential, SpecAddr)    *)
(*   scripts/08c_addresses_master_merge.py    (SpecAddrMaster)             *)
(* Every script is a single-threaded batch program; each specification     *)
(* below is the state machine of one script, its inputs (the files it      *)
(* reads) chosen in Init or drawn by the action that reads them.           *)
(***************************************************************************)
EXTENDS Integers, Sequences, FiniteSets, TLC

VARIABLES
    \* ---- 08a_parents_master_merge.py
    mpc,        \* position of the script: "config", "loop", "done", "aborted"
    menv,       \* the files the script reads (roster, submissions, EX-21 csv)
    rows,       \* rows of merged_df consumed so far by the loop
    records,    \* the list `records`
    written,    \* rows of parents_master_<date>.csv (empty until saved)
    \* ---- 08b normalize_jurisdiction, applied to one string
    npc, nin, nout,
    \* ---- 08b_subsidiaries_master_merge.py
    spc,        \* position of the script
    sraw,       \* the latest subs_ex21_raw_<date>.csv
    sdf,        \* the dataframe df
    sout,       \* subs_master_<date>.csv
    \* ---- 09_qc_and_reports.py
    qpc,        \* position of run_all_checks
    qin,        \* the files under data/ the checks read
    errors, warnings, stats,   \* the QCChecker's fields
    saved,      \* logs/errors_<date>.jsonl
    status,     \* the value run_all_checks returned (-1: none yet)
    \* ---- 02_resolve_cik.py, resolve_mappings
    rpc,            \* position of the loop over uscc_df
    uscc_df,        \* the roster rows
    sec_map,        \* the lookup table, ticker -> cik10
    resolved_rows,  \* the list `resolved_rows`
    missing,        \* the list `missing`
    \* ---- one call of a function (extract_ownership_from_text,
    \*      potential_address, parse_table_in_html)
    cpc,        \* "call" before the call, "done" after it
    carg,       \* the argument
    cres,       \* the value returned
    \* ---- 07_parse_ex3_charters.py, main
    apc,        \* position of main
    exhibits_index,  \* `exhibits`: the ex3 entries, with the lines parsed from each
    extracted,  \* what extract_addresses returned for each entry so far
    company_seen_addresses,
    rows_out,
    deduped_rows,   \* the rows written to charter_addresses_raw_<date>.csv
    \* ---- 06_parse_ex21_subs.py, main loop
    epc,        \* position of the script
    reports,    \* the entries of the exhibits index
    eidx,       \* number of entries the loop has passed
    ex21_index, \* the list `ex21_index`
    elog,       \* the messages printed with level WARN
    ewritten,   \* the rows of subs_ex21_raw_<date>.csv
    \* ---- 08a_parents_master_merge.py, from its two tables to its output
    jpc,            \* position of the script
    dei_df,         \* dei_facts_<date>.csv
    cik_df,         \* cik_map_<date>.csv
    merged_df,      \* dei_df left-joined with cik_df
    parent_records, \* the list `records`
    parents_written,\* parents_master_<date>.csv
    \* ---- 08c_addresses_master_merge.py
    kpc,                \* position of the script
    subs_master,        \* subs_master_<date>.csv
    parents_master,     \* parents_master_<date>.csv
    charter_addresses,  \* charter_addresses_raw_<date>.csv
    addresses_master    \* the frame addresses_master, then the file written

mvars == <<mpc, menv, rows, records, written>>
nvars == <<npc, nin, nout>>
svars == <<spc, sraw, sdf, sout>>
qvars == <<qpc, qin, errors, warnings, stats, saved, status>>
rvars == <<rpc, uscc_df, sec_map, resolved_rows, missing>>
cvars == <<cpc, carg, cres>>
avars == <<apc, exhibits_index, extracted, company_seen_addresses, rows_out, deduped_rows>>
evars == <<epc, reports, eidx, ex21_index, elog, ewritten>>
jvars == <<jpc, dei_df, cik_df, merged_df, parent_records, parents_written>>
kvars == <<kpc, subs_master, parents_master, charter_addresses, addresses_master>>
yvars == <<jvars, kvars>>
xvars == <<rvars, cvars, avars, evars, yvars>>
vars == <<mvars, nvars, svars, qvars, xvars>>

(***************************************************************************)
(* Values.  A CSV cell read by pandas is a string or NaN; a JSON key is a  *)
(* string or absent (None).                                                *)
(***************************************************************************)
None == "<None>"
NaN == "<NaN>"
Absent == "<absent>"

\* str.strip() on the strings the model uses: " " is a whitespace-only
\* string, " N2 " and " S2 " are padded values.
Strip(s) ==
    CASE s = " " -> ""
      [] s = " N2 " -> "N2"
      [] s = " S2 " -> "S2"
      [] OTHER -> s

\* str(val): NaN prints as "nan".
Str(v) == IF v = NaN THEN "nan" ELSE v

\* has_value (08a line 84)
has_value(val) == val # None /\ val # NaN /\ Strip(Str(val)) # ""

\* a year cell: a number, 0 standing for NaN
has_year(y) == y # 0

(***************************************************************************)
(* 08a_parents_master_merge.py                                             *)
(***************************************************************************)
MaxRows == 1

EDGAR_DIR == "data/raw/EDGAR"
DEI_FILE == "dei_facts.csv"
CIK_FILE == "cik_map.csv"
USCC_FILE == "chinese_companies_USA.csv"

Tickers == {"T1", " ", NaN}
\* directory names under EDGAR_DIR (a NaN ticker names no directory)
TickerDirs == {"T1", " "}
Ciks == {"0000000001", "PENDING", NaN}

\* one row of merged_df: the DEI row with parent_cik10 left-merged in
MergedRows ==
    [parent_ticker : Tickers, parent_cik10 : Ciks,
     registrant_name : {"N1", NaN}, incorp_state_raw : {"S1", NaN},
     legal_form : {"L1", NaN}]

NoFile == [exists |-> FALSE, readable |-> FALSE, name |-> None, desc |-> None]
BadFile == [exists |-> TRUE, readable |-> FALSE, name |-> None, desc |-> None]
GoodFile(n, d) == [exists |-> TRUE, readable |-> TRUE, name |-> n, desc |-> d]
GoodFiles == {GoodFile(" N2 ", None), GoodFile(None, " S2 "), GoodFile(" N2 ", " S2 ")}

\* the per-ticker submissions.json files
SubmissionDirs ==
    {f \in [TickerDirs -> {NoFile, BadFile} \cup GoodFiles] :
        f[" "] \in {NoFile, GoodFile(" N2 ", None)}}

\* uscc_lookup (08a line 69): ticker -> roster name
UsccLookups == [Tickers -> {Absent, "N3"}]

Ex21Row(t, c, y, a) ==
    [parent_ticker |-> t, parent_cik10 |-> c, exhibit_year |-> y,
     accession |-> a, source_path |-> "ex21.htm"]

\* ex21_df after lines 75-77 (ticker and cik as stripped strings)
Ex21Tables ==
    { <<>>,
      <<Ex21Row("T1", "0000000001", 2022, "A22"),
        Ex21Row("T1", "0000000001", 2023, "A23")>>,
      <<Ex21Row("nan", "nan", 0, NaN)>> }

Range(s) == {s[i] : i \in DOMAIN s}

EmptyMap == [k \in {} |-> ""]
Put(m, k, v) == [x \in DOMAIN m \cup {k} |-> IF x = k THEN v ELSE m[x]]
AddTag(s, tag) == IF tag \in Range(s) THEN s ELSE Append(s, tag)

\* os.path.join(EDGAR_DIR, ticker, "submissions.json") raises TypeError on
\* a float (NaN) ticker
PathRaises(ticker) == ticker = NaN

\* os.path.join(EDGAR_DIR, ticker, "submissions.json") for a string ticker
SubmissionsPath(ticker) == EDGAR_DIR \o "/" \o ticker \o "/submissions.json"

SubmissionsFile(env, ticker) == env.submissions[ticker]

\* get_name_from_submissions (08a lines 87-99), for a string ticker
get_name_from_submissions(env, ticker) ==
    LET f == SubmissionsFile(env, ticker)
    IN  IF ~f.exists THEN None
        ELSE IF f.readable /\ f.name # None /\ Strip(f.name) # ""
             THEN Strip(f.name) ELSE None

\* get_state_from_submissions (08a lines 101-114), for a string ticker
get_state_from_submissions(env, ticker) ==
    LET f == SubmissionsFile(env, ticker)
    IN  IF ~f.exists THEN None
        ELSE IF f.readable /\ f.desc # None /\ Strip(f.desc) # ""
             THEN Strip(f.desc) ELSE None

uscc_get(env, ticker) ==
    IF env.uscc_lookup[ticker] = Absent THEN None ELSE env.uscc_lookup[ticker]

NameStep_SubmissionsFirst(env, row) ==
    LET sub == IF PathRaises(row.parent_ticker) THEN None
               ELSE get_name_from_submissions(env, row.parent_ticker)
    IN  IF has_value(sub)
        THEN [name |-> sub, src |-> <<"submissions">>,
              lin |-> Put(EmptyMap, "submissions_path",
                          SubmissionsPath(row.parent_ticker))]
        ELSE IF has_value(row.registrant_name)
        THEN [name |-> row.registrant_name, src |-> <<"DEI">>,
              lin |-> Put(EmptyMap, "dei_path", DEI_FILE)]
        ELSE [name |-> row.registrant_name, src |-> <<>>, lin |-> EmptyMap]

\* the name waterfall (08a lines 125-144): name, sources_used, lineage
NameStep(env, row) ==
    IF has_value(row.registrant_name)
    THEN [name |-> row.registrant_name, src |-> <<"DEI">>,
          lin |-> Put(EmptyMap, "dei_path", DEI_FILE)]
    ELSE LET sub == get_name_from_submissions(env, row.parent_ticker)
         IN  IF has_value(sub)
             THEN [name |-> sub, src |-> <<"submissions">>,
                   lin |-> Put(EmptyMap, "submissions_path",
                               SubmissionsPath(row.parent_ticker))]
             ELSE IF has_value(uscc_get(env, row.parent_ticker))
             THEN [name |-> uscc_get(env, row.parent_ticker), src |-> <<"USCC">>,
                   lin |-> Put(EmptyMap, "uscc_path", USCC_FILE)]
             ELSE [name |-> row.registrant_name, src |-> <<>>, lin |-> EmptyMap]

\* ticker / CIK sources (08a lines 149-165), for a row that does not raise
TickerCikStep(env, row, st) ==
    LET t == row.parent_ticker
        c == row.parent_cik10
        s1 == IF has_value(t) /\ "DEI" \notin Range(st.src)
              THEN [st EXCEPT !.src = Append(@, "DEI"),
                              !.lin = Put(@, "dei_path", DEI_FILE)]
              ELSE st
        s2 == IF has_value(c) /\ "CIK" \notin Range(s1.src)
              THEN [s1 EXCEPT !.src = Append(@, "CIK"),
                              !.lin = Put(@, "cik_path", CIK_FILE)]
              ELSE s1
        s3 == IF ~has_value(t) /\ env.uscc_lookup[t] # Absent
                 /\ "USCC" \notin Range(s2.src)
              THEN [s2 EXCEPT !.src = Append(@, "USCC"),
                              !.lin = Put(@, "uscc_path", USCC_FILE)]
              ELSE s2
        s4 == IF ~has_value(t) /\ ~has_value(c)
                 /\ SubmissionsFile(env, t).exists
                 /\ "submissions" \notin Range(s3.src)
              THEN [s3 EXCEPT !.src = Append(@, "submissions"),
                              !.lin = Put(@, "submissions_path", SubmissionsPath(t))]
              ELSE s3
    IN  s4

\* incorporation state (08a lines 171-185): adds the field state
StateStep(env, row, st) ==
    LET raw == row.incorp_state_raw
        sub == get_state_from_submissions(env, row.parent_ticker)
    IN  IF has_value(raw)
        THEN [name |-> st.name, src |-> st.src, lin |-> st.lin, state |-> raw]
        ELSE IF has_value(sub)
        THEN [name |-> st.name, src |-> AddTag(st.src, "submissions"),
              lin |-> Put(st.lin, "submissions_path", SubmissionsPath(row.parent_ticker)),
              state |-> sub]
        ELSE [name |-> st.name, src |-> st.src, lin |-> st.lin, state |-> raw]

\* ex_rows (08a lines 191-194)
ExRows(env, row) ==
    SelectSeq(env.ex21_df,
              LAMBDA r : r.parent_ticker = Str(row.parent_ticker)
                         \/ r.parent_cik10 = Str(row.parent_cik10))

\* the rows sort_values("exhibit_year", ascending=False).iloc[0] can return:
\* a row of the largest year (NaN years sort last; the sort is not stable)
LatestRows(ex_rows) ==
    {r \in Range(ex_rows) : \A q \in Range(ex_rows) : q.exhibit_year <= r.exhibit_year}

NoLatest == Ex21Row(None, None, 0, None)

\* the values `latest` may take for a row: NoLatest when ex_rows is empty
LatestChoices(env, row) ==
    IF ExRows(env, row) = <<>> THEN {NoLatest} ELSE LatestRows(ExRows(env, row))

\* latest 20-F year and accession (08a lines 190-203)
Ex21Step(latest, st) ==
    IF latest = NoLatest
    THEN [st EXCEPT !.src = @] @@ [year |-> 0, accession |-> None]
    ELSE IF has_year(latest.exhibit_year) \/ has_value(latest.accession)
    THEN [name |-> st.name, state |-> st.state,
          src |-> AddTag(st.src, "EX-21"),
          lin |-> Put(st.lin, "ex21_path", latest.source_path),
          year |-> latest.exhibit_year, accession |-> latest.accession]
    ELSE st @@ [year |-> latest.exhibit_year, accession |-> latest.accession]

\* the loop body raises TypeError when it builds a path from a NaN ticker
\* (08a lines 136, 162, 180)
RowRaises(row) ==
    PathRaises(row.parent_ticker)
    /\ (\/ ~has_value(row.registrant_name)
        \/ (~has_value(row.parent_ticker) /\ ~has_value(row.parent_cik10))
        \/ ~has_value(row.incorp_state_raw))

\* the country of the scraped facts is carried into the record
BuildRecord_WithCountry(env, row, latest) ==
    LET st == Ex21Step(latest,
                  StateStep(env, row, TickerCikStep(env, row, NameStep(env, row))))
    IN  [parent_ticker |-> row.parent_ticker,
         parent_cik10 |-> row.parent_cik10,
         parent_name |-> st.name,
         incorp_country_iso3 |-> IF has_value(row.incorp_country) THEN "CHN" ELSE "",
         incorp_state_or_region |-> st.state,
         legal_form |-> row.legal_form,
         latest_20f_year |-> st.year,
         latest_20f_accession |-> st.accession,
         sources_used |-> st.src,
         lineage |-> st.lin]

\* the record appended for a row (08a lines 121-219)
BuildRecord(env, row, latest) ==
    LET st == Ex21Step(latest,
                  StateStep(env, row, TickerCikStep(env, row, NameStep(env, row))))
    IN  [parent_ticker |-> row.parent_ticker,
         parent_cik10 |-> row.parent_cik10,
         parent_name |-> st.name,
         incorp_country_iso3 |-> "",
         incorp_state_or_region |-> st.state,
         legal_form |-> row.legal_form,
         latest_20f_year |-> st.year,
         latest_20f_accession |-> st.accession,
         sources_used |-> st.src,
         lineage |-> st.lin]

InputFiles == {"dei", "cik", "ex21", "uscc"}

NoData ==
    [uscc_lookup |-> [t \in Tickers |-> Absent],
     submissions |-> [t \in TickerDirs |-> NoFile],
     ex21_df |-> <<>>]

\* find_latest_file for the four inputs and the loads (08a lines 11-79):
\* a missing input raises FileNotFoundError
MergeConfig ==
    /\ mpc = "config"
    /\ IF menv.files = InputFiles
       THEN /\ \E u \in UsccLookups, s \in SubmissionDirs, e \in Ex21Tables :
                 menv' = [files |-> menv.files, uscc_lookup |-> u,
                          submissions |-> s, ex21_df |-> e]
            /\ mpc' = "loop"
       ELSE /\ mpc' = "aborted"
            /\ menv' = menv
    /\ UNCHANGED <<rows, records, written>>
    /\ UNCHANGED <<nvars, svars, qvars, xvars>>

\* one iteration of the loop over merged_df (08a lines 121-219)
MergeRow ==
    /\ mpc = "loop"
    /\ Len(rows) < MaxRows
    /\ \E row \in MergedRows :
        /\ rows' = Append(rows, row)
        /\ IF RowRaises(row)
           THEN /\ mpc' = "aborted"
                /\ records' = records
           ELSE /\ mpc' = "loop"
                /\ \E latest \in LatestChoices(menv, row) :
                      records' = Append(records, BuildRecord(menv, row, latest))
    /\ UNCHANGED <<menv, written>>
    /\ UNCHANGED <<nvars, svars, qvars, xvars>>

\* "|".join(sources_used)
RECURSIVE JoinTags(_)
JoinTags(s) ==
    IF s = <<>> THEN ""
    ELSE IF Len(s) = 1 THEN s[1]
    ELSE s[1] \o "|" \o JoinTags(Tail(s))

\* df_out.to_csv (08a lines 224-225)
MergeSave ==
    /\ mpc = "loop"
    /\ written' = [i \in DOMAIN records |->
                      [records[i] EXCEPT !.sources_used = JoinTags(@)]]
    /\ mpc' = "done"
    /\ UNCHANGED <<menv, rows, records>>
    /\ UNCHANGED <<nvars, svars, qvars, xvars>>

IdleR == /\ rpc = "idle" /\ uscc_df = <<>> /\ sec_map = <<>>
         /\ resolved_rows = <<>> /\ missing = <<>>
IdleC == cpc = "idle" /\ carg = <<>> /\ cres = <<>>
IdleA == /\ apc = "idle" /\ exhibits_index = <<>> /\ extracted = <<>>
         /\ company_seen_addresses = {} /\ rows_out = <<>> /\ deduped_rows = <<>>
IdleE == /\ epc = "idle" /\ reports = <<>> /\ eidx = 0 /\ ex21_index = <<>>
         /\ elog = <<>> /\ ewritten = <<>>
IdleJ == /\ jpc = "idle" /\ dei_df = <<>> /\ cik_df = <<>> /\ merged_df = <<>>
         /\ parent_records = <<>> /\ parents_written = <<>>
IdleK == /\ kpc = "idle" /\ subs_master = <<>> /\ parents_master = <<>>
         /\ charter_addresses = <<>> /\ addresses_master = <<>>
IdleY == IdleJ /\ IdleK
IdleX == IdleR /\ IdleC /\ IdleA /\ IdleE /\ IdleY
IdleN == npc = "idle" /\ nin = <<>> /\ nout = <<>>
IdleS == spc = "idle" /\ sraw = <<>> /\ sdf = <<>> /\ sout = <<>>
IdleQ == /\ qpc = "idle" /\ qin = <<>> /\ errors = <<>>
         /\ warnings = <<>> /\ stats = <<>> /\ saved = <<>> /\ status = -1
IdleM == /\ mpc = "idle" /\ menv = <<>> /\ rows = <<>>
         /\ records = <<>> /\ written = <<>>

InitMerge ==
    /\ mpc = "config"
    /\ \E fs \in SUBSET InputFiles : menv = NoData @@ [files |-> fs]
    /\ rows = <<>>
    /\ records = <<>>
    /\ written = <<>>
    /\ IdleN /\ IdleS /\ IdleQ /\ IdleX

NextMerge == MergeConfig \/ MergeRow \/ MergeSave

SpecMerge == InitMerge /\ [][NextMerge]_vars

(***************************************************************************)
(* Claims about the parent merge                                           *)
(***************************************************************************)
\* the name the submission metadata supplies for a row: the stripped "name"
\* of a readable submissions.json, None otherwise
SubmissionName(env, row) ==
    IF row.parent_ticker \notin TickerDirs THEN None
    ELSE LET f == env.submissions[row.parent_ticker]
         IN  IF f.exists /\ f.readable /\ f.name # None THEN Strip(f.name)
             ELSE None

RosterName(env, row) ==
    IF env.uscc_lookup[row.parent_ticker] = Absent THEN None
    ELSE env.uscc_lookup[row.parent_ticker]

NonBlank(v) == v \notin {None, NaN, "", " "}

\* C1: waterfall priority of the parent name.  In every record the merged
\* name is the first non-blank value among the DEI name, the submission
\* metadata name and the roster name, in that order (blank when all three
\* are blank); when the DEI name is non-blank the record carries the DEI tag,
\* and it carries the submissions tag only for a reason other than the name
\* (the incorporation state was taken from the submission metadata, or the
\* row has neither ticker nor identifier and the file exists).
C1_WaterfallPriority ==
    \A i \in DOMAIN records :
        LET row == rows[i]
            rec == records[i]
            dei == row.registrant_name
            sub == SubmissionName(menv, row)
            ros == RosterName(menv, row)
        IN  /\ NonBlank(dei) => rec.parent_name = dei
            /\ (~NonBlank(dei) /\ NonBlank(sub)) => rec.parent_name = sub
            /\ (~NonBlank(dei) /\ ~NonBlank(sub) /\ NonBlank(ros))
                  => rec.parent_name = ros
            /\ (~NonBlank(dei) /\ ~NonBlank(sub) /\ ~NonBlank(ros))
                  => ~NonBlank(rec.parent_name)
            /\ NonBlank(dei) =>
                  /\ "DEI" \in Range(rec.sources_used)
                  /\ "submissions" \in Range(rec.sources_used) =>
                        \/ (~NonBlank(row.incorp_state_raw)
                              /\ NonBlank(rec.incorp_state_or_region))
                        \/ (~NonBlank(row.parent_ticker)
                              /\ ~NonBlank(row.parent_cik10))

\* a record whose DEI name is non-blank while the submission metadata
\* supplies a different name
C1_Witness ==
    \E i \in DOMAIN records :
        /\ NonBlank(rows[i].registrant_name)
        /\ NonBlank(SubmissionName(menv, rows[i]))
        /\ SubmissionName(menv, rows[i]) # rows[i].registrant_name
        /\ records[i].parent_name = rows[i].registrant_name

\* C7: provenance is never empty.  Every parent record written by the merge
\* has at least one tag in sources_used.
C7_ProvenanceNeverEmpty ==
    /\ \A i \in DOMAIN records : records[i].sources_used # <<>>
    /\ \A i \in DOMAIN written : written[i].sources_used # ""

LineageTag ==
    [k \in {"dei_path", "submissions_path", "uscc_path", "cik_path", "ex21_path"} |->
        CASE k = "dei_path" -> "DEI"
          [] k = "submissions_path" -> "submissions"
          [] k = "uscc_path" -> "USCC"
          [] k = "cik_path" -> "CIK"
          [] k = "ex21_path" -> "EX-21"]

AnyFieldPopulated(rec) ==
    \/ NonBlank(rec.parent_ticker) \/ NonBlank(rec.parent_cik10)
    \/ NonBlank(rec.parent_name) \/ NonBlank(rec.incorp_country_iso3)
    \/ NonBlank(rec.incorp_state_or_region) \/ NonBlank(rec.legal_form)
    \/ has_year(rec.latest_20f_year) \/ NonBlank(rec.latest_20f_accession)

\* C8: lineage/provenance consistency.  In every record each lineage entry
\* has its source tag in sources_used, and sources_used is non-empty
\* whenever any field of the record is populated.
C8_LineageProvenanceConsistent ==
    \A i \in DOMAIN records :
        /\ \A k \in DOMAIN records[i].lineage :
              LineageTag[k] \in Range(records[i].sources_used)
        /\ AnyFieldPopulated(records[i]) => records[i].sources_used # <<>>

\* C9: graceful degradation.  A missing input file of a lower-priority
\* source (the roster CSV, a per-ticker submissions.json) never aborts the
\* run: with the other inputs present the script does not stop on
\* FileNotFoundError, and a row whose submissions.json is missing still
\* gets its record.
C9_LowerPrioritySourceMissingIsNotFatal ==
    /\ (InputFiles \ menv.files = {"uscc"}) => mpc # "aborted"
    /\ \A i \in DOMAIN rows :
          (rows[i].parent_ticker \in TickerDirs
             /\ ~menv.submissions[rows[i].parent_ticker].exists)
          => i \in DOMAIN records

(***************************************************************************)
(* 09_qc_and_reports.py                                                    *)
(***************************************************************************)
\* total number of rows over the tables one QC run reads
MaxInputRows == 2

\* MIN_PARSE_CONFIDENCE (0.60) and TARGET_MAPPING_RATE (0.95), in percent
MIN_PARSE_CONFIDENCE == 60
TARGET_MAPPING_RATE == 95

OFFSHORE_JURISDICTIONS == {"CYM", "HKG", "VGB", "BMU", "VIR", "SGP"}

CRITICAL_CODES_AllErrors ==
    {"MISSING_INCORP_COUNTRY", "NO_EX21_FOUND", "INVALID_CIK", "MISSING_JURISDICTION",
     "LOW_PARSE_CONFIDENCE", "JURISDICTION_DRIFT", "DUPLICATE_ENTRY", "NO_ADDRESS",
     "FILE_NOT_FOUND"}

CRITICAL_CODES_CountryOnly == {"MISSING_INCORP_COUNTRY"}

\* the codes counted as critical (09 lines 376-377)
CRITICAL_CODES == {"MISSING_INCORP_COUNTRY", "NO_EX21_FOUND"}

\* rows of the files as pandas reads them
QcParentRows ==
    [parent_ticker : {"T1"}, parent_cik10 : {"0000000001", "PENDING", NaN},
     incorp_country_iso3 : {NaN, "CYM", "CHN"}]
QcSubRows ==
    [sub_uuid : {"U1", "U2"}, parent_ticker : {"T1"}, parent_cik10 : {"0000000001"},
     jurisdiction_iso3 : {"CHN", "HKG", NaN}, parse_confidence : {50, 100}]
QcAddressRows ==
    [entity_type : {"parent", "subsidiary"}, entity_id : {"0000000001"},
     address_raw : {NaN, "88 Queensway, Hong Kong"},
     parse_confidence : {50, 100}]
QcExhibitRows == [ticker : {"T1", "T2"}, exhibit_type : {"ex21", "ex3"}]
QcCikMaps ==
    { <<>>,
      <<[ticker |-> "T1", cik10 |-> "0000000001"]>>,
      <<[ticker |-> "T1", cik10 |-> "0000000001"], [ticker |-> "T2", cik10 |-> "PENDING"]>> }

File(rs) == [exists |-> TRUE, rows |-> rs]
Missing == [exists |-> FALSE, rows |-> <<>>]
FilesOf(RowSet, n) ==
    IF n = 0 THEN {Missing, File(<<>>)} ELSE {File(t) : t \in [1..n -> RowSet]}

Entry(ticker, cik, code, ctx) ==
    [ticker |-> ticker, cik10 |-> cik, error_code |-> code, context |-> ctx]

Count(m, k) == IF k \in DOMAIN m THEN m[k] ELSE 0

\* log_error (09 lines 86-102)
log_error(qs, e) ==
    [qs EXCEPT !.errors = Append(@, e),
               !.stats = Put(@, "errors_by_code",
                             Put(@["errors_by_code"], e.error_code,
                                 Count(@["errors_by_code"], e.error_code) + 1))]

\* log_warning (09 lines 104-110)
log_warning(qs, msg) ==
    [qs EXCEPT !.warnings = Append(@, msg),
               !.stats = Put(@, "warnings_count", @["warnings_count"] + 1)]

RECURSIVE log_errors(_, _)
log_errors(qs, es) ==
    IF es = <<>> THEN qs ELSE log_errors(log_error(qs, Head(es)), Tail(es))

MapEntries(rs, F(_)) == [i \in 1..Len(rs) |-> F(rs[i])]

SetStat(qs, k, v) == [qs EXCEPT !.stats = Put(@, k, v)]
Performed(qs, name) ==
    SetStat(qs, "checks_performed", Append(qs.stats["checks_performed"], name))

\* ~str(cik).match(r'^\d{10}$') (09 line 155), on the identifiers of the model
INVALID_CIK(cik) == Str(cik) # "0000000001"

\* check_parents_master (09 lines 125-178)
check_parents_master(qs0, parents) ==
    LET qs == Performed(qs0, "parents_master")
    IN  IF ~parents.exists
        THEN log_error(qs, Entry("", "", "FILE_NOT_FOUND", EmptyMap))
        ELSE LET df == parents.rows
                 q1 == SetStat(qs, "total_parents", Len(df))
                 missing_country ==
                     SelectSeq(df, LAMBDA r : r.incorp_country_iso3 = NaN)
                 q2 == log_errors(q1, MapEntries(missing_country,
                          LAMBDA r : Entry(r.parent_ticker, r.parent_cik10,
                                           "MISSING_INCORP_COUNTRY", EmptyMap)))
                 invalid_ciks == SelectSeq(df, LAMBDA r : INVALID_CIK(r.parent_cik10))
             IN  log_errors(q2, MapEntries(invalid_ciks,
                          LAMBDA r : Entry(r.parent_ticker, r.parent_cik10,
                                           "INVALID_CIK", EmptyMap)))

\* the distinct values of a sequence in order of first appearance
\* (Series.unique())
RECURSIVE Unique(_)
Unique(xs) ==
    IF xs = <<>> THEN <<>>
    ELSE LET init == Unique(SubSeq(xs, 1, Len(xs) - 1))
             last == xs[Len(xs)]
         IN  IF last \in Range(init) THEN init ELSE Append(init, last)

Column(df, c) == [i \in 1..Len(df) |-> df[i][c]]

\* groupby keys come out sorted
UuidOrder == <<"U1", "U2">>

\* Series.nunique(): NaN is not counted
NUnique(xs) == Cardinality(Range(xs) \ {NaN})

DriftEntries_PerRow(df) ==
    LET rs == SelectSeq(df, LAMBDA r :
                 NUnique(Column(SelectSeq(df, LAMBDA q : q.sub_uuid = r.sub_uuid),
                                "jurisdiction_iso3")) > 1)
    IN  MapEntries(rs, LAMBDA r :
            Entry(r.parent_ticker, r.parent_cik10, "JURISDICTION_DRIFT",
                  Put(Put(EmptyMap, "sub_uuid", r.sub_uuid), "jurisdictions",
                      Unique(Column(SelectSeq(df, LAMBDA q : q.sub_uuid = r.sub_uuid),
                                    "jurisdiction_iso3")))))

\* the drift defects (09 lines 222-236): one per sub_uuid with more than one
\* distinct jurisdiction_iso3
DriftEntriesIn(df, keys) ==
    LET group(u) == SelectSeq(df, LAMBDA r : r.sub_uuid = u)
        drifted == SelectSeq(keys, LAMBDA u :
                       NUnique(Column(group(u), "jurisdiction_iso3")) > 1)
    IN  MapEntries(drifted, LAMBDA u :
            LET sub_data == group(u)[1]
            IN  Entry(sub_data.parent_ticker, sub_data.parent_cik10,
                      "JURISDICTION_DRIFT",
                      Put(Put(EmptyMap, "sub_uuid", u), "jurisdictions",
                          Unique(Column(group(u), "jurisdiction_iso3")))))

DriftEntries(df) == DriftEntriesIn(df, UuidOrder)

\* the duplicate defects (09 lines 239-250): one per parent_cik10 that has
\* rows sharing (parent_cik10, sub_uuid)
DuplicateEntries(df) ==
    LET duplicates == SelectSeq(df, LAMBDA r :
            Cardinality({i \in DOMAIN df : df[i].parent_cik10 = r.parent_cik10
                                           /\ df[i].sub_uuid = r.sub_uuid}) > 1)
        ciks == Unique(Column(duplicates, "parent_cik10"))
    IN  MapEntries(ciks, LAMBDA cik :
            LET parent_dups == SelectSeq(duplicates, LAMBDA r : r.parent_cik10 = cik)
            IN  Entry(parent_dups[1].parent_ticker, cik, "DUPLICATE_ENTRY",
                      Put(EmptyMap, "count", Len(parent_dups))))

\* check_subsidiaries_master (09 lines 180-255)
check_subsidiaries_master(qs0, subs) ==
    LET qs == Performed(qs0, "subsidiaries_master")
    IN  IF ~subs.exists
        THEN log_error(qs, Entry("", "", "FILE_NOT_FOUND", EmptyMap))
        ELSE LET df == subs.rows
                 q1 == SetStat(qs, "total_subsidiaries", Len(df))
                 missing_jurisdiction ==
                     SelectSeq(df, LAMBDA r : r.jurisdiction_iso3 = NaN)
                 q2 == log_errors(q1, MapEntries(missing_jurisdiction,
                          LAMBDA r : Entry(r.parent_ticker, r.parent_cik10,
                                           "MISSING_JURISDICTION",
                                           Put(EmptyMap, "sub_uuid", r.sub_uuid))))
                 low_confidence ==
                     SelectSeq(df, LAMBDA r : r.parse_confidence < MIN_PARSE_CONFIDENCE)
                 q3 == log_errors(q2, MapEntries(low_confidence,
                          LAMBDA r : Entry(r.parent_ticker, r.parent_cik10,
                                           "LOW_PARSE_CONFIDENCE",
                                           Put(EmptyMap, "confidence", r.parse_confidence))))
                 q4 == log_errors(q3, DriftEntries(df))
             IN  log_errors(q4, DuplicateEntries(df))

\* a column of identifiers as pandas types it without dtype=str: numbers
\* when every cell is numeric or empty, strings otherwise
NumericColumn(df, c) ==
    \A i \in DOMAIN df : df[i][c] \in {"0000000001", NaN}
AsNumber(v) == IF v = "0000000001" THEN "1" ELSE v
ReadId(df, c, v) == IF NumericColumn(df, c) THEN AsNumber(v) ELSE v

\* check_addresses_master (09 lines 257-306)
check_addresses_master(qs0, addresses, parents) ==
    LET qs == Performed(qs0, "addresses_master")
    IN  IF ~addresses.exists
        THEN log_warning(qs, "No addresses_master file found")
        ELSE LET df == addresses.rows
                 q1 == SetStat(qs, "total_addresses", Len(df))
                 parents_df == parents.rows
                 offshore_parents ==
                     SelectSeq(parents_df, LAMBDA r :
                         r.incorp_country_iso3 \in OFFSHORE_JURISDICTIONS)
                 has_address(parent) ==
                     \E i \in DOMAIN df :
                         /\ df[i].entity_type = "parent"
                         /\ ReadId(df, "entity_id", df[i].entity_id)
                              = ReadId(parents_df, "parent_cik10", parent.parent_cik10)
                         /\ parent.parent_cik10 # NaN
                 no_address == SelectSeq(offshore_parents, LAMBDA r : ~has_address(r))
             IN  IF ~parents.exists THEN q1
                 ELSE log_errors(q1, MapEntries(no_address,
                          LAMBDA r : Entry(r.parent_ticker,
                                           ReadId(parents_df, "parent_cik10", r.parent_cik10),
                                           "NO_ADDRESS",
                                           Put(EmptyMap, "country", r.incorp_country_iso3))))

\* a defect for every ticker of the identifier map without an ex21 entry
check_exhibits_completeness_AllMapped(qs0, exhibits, cik_map) ==
    LET qs == Performed(qs0, "exhibits_completeness")
    IN  IF ~exhibits.exists
        THEN log_warning(qs, "No exhibits_index file found")
        ELSE LET ex == exhibits.rows
                 has_ex21(t) == \E i \in DOMAIN ex :
                                    ex[i].ticker = t /\ ex[i].exhibit_type = "ex21"
                 found == SelectSeq(cik_map.rows, LAMBDA r : ~has_ex21(r.ticker))
             IN  log_errors(qs, MapEntries(found,
                     LAMBDA r : Entry(r.ticker, r.cik10, "NO_EX21_FOUND", EmptyMap)))

\* check_exhibits_completeness (09 lines 308-353)
check_exhibits_completeness(qs0, exhibits, cik_map) ==
    LET qs == Performed(qs0, "exhibits_completeness")
    IN  IF ~exhibits.exists
        THEN log_warning(qs, "No exhibits_index file found")
        ELSE LET ex == exhibits.rows
                 tickers == Unique(Column(ex, "ticker"))
                 has_ex21(t) == \E i \in DOMAIN ex :
                                    ex[i].ticker = t /\ ex[i].exhibit_type = "ex21"
                 no_ex21 == SelectSeq(tickers, LAMBDA t : ~has_ex21(t))
                 ticker_row(t) == SelectSeq(cik_map.rows, LAMBDA r : r.ticker = t)
                 found == SelectSeq(no_ex21, LAMBDA t :
                              cik_map.exists /\ ticker_row(t) # <<>>)
             IN  log_errors(qs, MapEntries(found,
                     LAMBDA t : Entry(t, ticker_row(t)[1].cik10, "NO_EX21_FOUND", EmptyMap)))

\* sum(errors_by_code.values())
RECURSIVE SumCounts(_)
SumCounts(m) ==
    IF DOMAIN m = {} THEN 0
    ELSE LET k == CHOOSE x \in DOMAIN m : TRUE
         IN  m[k] + SumCounts([x \in DOMAIN m \ {k} |-> m[x]])

\* `total_parents / total_expected` raises ZeroDivisionError on an empty
\* cik_map (09 lines 360-366)
StatisticsRaises(qs, cik_map) ==
    qs.stats["total_parents"] > 0 /\ cik_map.exists /\ cik_map.rows = <<>>

\* calculate_statistics (09 lines 355-390), when it does not raise
calculate_statistics(qs, cik_map) ==
    LET rated == qs.stats["total_parents"] > 0 /\ cik_map.exists
        below == qs.stats["total_parents"] * 100
                    < TARGET_MAPPING_RATE * Len(cik_map.rows)
        q1 == IF rated /\ below THEN log_warning(qs, "Mapping rate below target") ELSE qs
        q2 == SetStat(q1, "total_errors", SumCounts(q1.stats["errors_by_code"]))
        critical == SelectSeq(q1.errors, LAMBDA e : e.error_code \in CRITICAL_CODES)
    IN  SetStat(q2, "critical_errors", Len(critical))

QcState == [errors |-> errors, warnings |-> warnings, stats |-> stats]

QcSet(qs) ==
    /\ errors' = qs.errors
    /\ warnings' = qs.warnings
    /\ stats' = qs.stats

\* QCChecker.__init__ (09 lines 71-84)
InitStats ==
    [k \in {"checks_performed", "total_parents", "total_subsidiaries",
            "total_addresses", "errors_by_code", "warnings_count"} |->
        CASE k = "checks_performed" -> <<>>
          [] k = "errors_by_code" -> EmptyMap
          [] OTHER -> 0]

QcParents ==
    /\ qpc = "parents"
    /\ QcSet(check_parents_master(QcState, qin.parents))
    /\ qpc' = "subs"
    /\ UNCHANGED <<qin, saved, status>>
    /\ UNCHANGED <<mvars, nvars, svars, xvars>>

QcSubs ==
    /\ qpc = "subs"
    /\ QcSet(check_subsidiaries_master(QcState, qin.subs))
    /\ qpc' = "addresses"
    /\ UNCHANGED <<qin, saved, status>>
    /\ UNCHANGED <<mvars, nvars, svars, xvars>>

QcAddresses ==
    /\ qpc = "addresses"
    /\ QcSet(check_addresses_master(QcState, qin.addresses, qin.parents))
    /\ qpc' = "exhibits"
    /\ UNCHANGED <<qin, saved, status>>
    /\ UNCHANGED <<mvars, nvars, svars, xvars>>

QcExhibits ==
    /\ qpc = "exhibits"
    /\ QcSet(check_exhibits_completeness(QcState, qin.exhibits, qin.cik_map))
    /\ qpc' = "stats"
    /\ UNCHANGED <<qin, saved, status>>
    /\ UNCHANGED <<mvars, nvars, svars, xvars>>

QcStatistics ==
    /\ qpc = "stats"
    /\ IF StatisticsRaises(QcState, qin.cik_map)
       THEN qpc' = "aborted" /\ UNCHANGED <<errors, warnings, stats>>
       ELSE qpc' = "report" /\ QcSet(calculate_statistics(QcState, qin.cik_map))
    /\ UNCHANGED <<qin, saved, status>>
    /\ UNCHANGED <<mvars, nvars, svars, xvars>>

\* the exit status (09 lines 597-603)
ExitStatus(st) == IF st["critical_errors"] = 0 THEN 0 ELSE 1

\* generate_html_report, save_logs and the return (09 lines 585-603)
QcFinish ==
    /\ qpc = "report"
    /\ saved' = errors
    /\ status' = ExitStatus(stats)
    /\ qpc' = "done"
    /\ UNCHANGED <<qin, errors, warnings, stats>>
    /\ UNCHANGED <<mvars, nvars, svars, xvars>>

InitQC ==
    /\ qpc = "parents"
    /\ \E np, ns, na, ne \in 0..MaxInputRows :
          /\ np + ns + na + ne <= MaxInputRows
          /\ \E p \in FilesOf(QcParentRows, np), s \in FilesOf(QcSubRows, ns),
                a \in FilesOf(QcAddressRows, na), e \in FilesOf(QcExhibitRows, ne),
                c \in {Missing} \cup {File(t) : t \in QcCikMaps} :
                qin = [parents |-> p, subs |-> s, addresses |-> a,
                       exhibits |-> e, cik_map |-> c]
    /\ errors = <<>>
    /\ warnings = <<>>
    /\ stats = InitStats
    /\ saved = <<>>
    /\ status = -1
    /\ IdleM /\ IdleN /\ IdleS /\ IdleX

NextQC == QcParents \/ QcSubs \/ QcAddresses \/ QcExhibits \/ QcStatistics \/ QcFinish

SpecQC == InitQC /\ [][NextQC]_vars

(***************************************************************************)
(* Claims about the QC Auditor                                             *)
(***************************************************************************)
SubsChecked == qpc \in {"addresses", "exhibits", "stats", "report", "done", "aborted"}

\* the values of jurisdiction_iso3 the table holds for an identity key
ObservedJurisdictions(u) ==
    {qin.subs.rows[i].jurisdiction_iso3 :
        i \in {j \in DOMAIN qin.subs.rows : qin.subs.rows[j].sub_uuid = u}}

DriftDefects(u) ==
    {i \in DOMAIN errors : /\ errors[i].error_code = "JURISDICTION_DRIFT"
                           /\ errors[i].context["sub_uuid"] = u}

DriftReported ==
    SubsChecked =>
        \A u \in {"U1", "U2"} :
            ({"CHN", "HKG"} \subseteq ObservedJurisdictions(u)) =>
                /\ Cardinality(DriftDefects(u)) = 1
                /\ \A i \in DriftDefects(u) :
                      {"CHN", "HKG"} \subseteq Range(errors[i].context["jurisdictions"])

\* C3: drift flagging.  Once the subsidiary check has run, an identity key
\* observed with jurisdiction CHN in one row and HKG in another has exactly
\* one JURISDICTION_DRIFT defect, whose context names both values; and no
\* step of the run changes the subsidiary master table (drift is reported,
\* never deleted or resolved).
C3_DriftFlagged == [](DriftReported) /\ [][qin'.subs = qin.subs]_vars

C3_Witness ==
    /\ qpc = "addresses"
    /\ {"CHN", "HKG"} \subseteq ObservedJurisdictions("U1")
    /\ Cardinality(DriftDefects("U1")) = 1
    /\ Len(qin.subs.rows) = 2

MissingCountryRows ==
    {i \in DOMAIN qin.parents.rows : qin.parents.rows[i].incorp_country_iso3 = NaN}

MissingExhibit ==
    /\ qin.exhibits.exists /\ qin.cik_map.exists
    /\ \E i \in DOMAIN qin.exhibits.rows :
          /\ \A j \in DOMAIN qin.exhibits.rows :
                qin.exhibits.rows[j].ticker = qin.exhibits.rows[i].ticker
                   => qin.exhibits.rows[j].exhibit_type # "ex21"
          /\ \E k \in DOMAIN qin.cik_map.rows :
                qin.cik_map.rows[k].ticker = qin.exhibits.rows[i].ticker

C10_PendingIsNotADefect ==
    \A i \in DOMAIN errors :
        ~(errors[i].error_code = "INVALID_CIK" /\ errors[i].cik10 = "PENDING")

(***************************************************************************)
(* 08b_subsidiaries_master_merge.py: normalize_jurisdiction                *)
(* A string is the sequence of its characters.                             *)
(***************************************************************************)
UpperCase ==
    <<"A", "B", "C", "D", "E", "F", "G", "H", "I", "J", "K", "L", "M",
      "N", "O", "P", "Q", "R", "S", "T", "U", "V", "W", "X", "Y", "Z">>
LowerCase ==
    <<"a", "b", "c", "d", "e", "f", "g", "h", "i", "j", "k", "l", "m",
      "n", "o", "p", "q", "r", "s", "t", "u", "v", "w", "x", "y", "z">>

IsAlpha(c) == c \in Range(UpperCase) \cup Range(LowerCase)

\* str.lower() on one character
ToLower(c) ==
    IF c \in Range(UpperCase)
    THEN LowerCase[CHOOSE i \in DOMAIN UpperCase : UpperCase[i] = c]
    ELSE c

LowerStr(str) == [i \in DOMAIN str |-> ToLower(str[i])]

\* str.strip(): drop leading and trailing spaces
RECURSIVE StripStr(_)
StripStr(str) ==
    IF str = <<>> THEN <<>>
    ELSE IF Head(str) = " " THEN StripStr(Tail(str))
    ELSE IF str[Len(str)] = " " THEN StripStr(SubSeq(str, 1, Len(str) - 1))
    ELSE str

\* does pat occur in str at position i
MatchAt(str, pat, i) ==
    /\ i >= 1 /\ i + Len(pat) - 1 <= Len(str)
    /\ SubSeq(str, i, i + Len(pat) - 1) = pat

\* str.replace(pat, rep): every occurrence, left to right
RECURSIVE ReplaceAll(_, _, _)
ReplaceAll(str, pat, rep) ==
    IF str = <<>> THEN <<>>
    ELSE IF MatchAt(str, pat, 1)
    THEN rep \o ReplaceAll(SubSeq(str, Len(pat) + 1, Len(str)), pat, rep)
    ELSE <<Head(str)>> \o ReplaceAll(Tail(str), pat, rep)

\* the three characters of the mis-decoded apostrophe (08b line 55)
EncodingArtifact == <<"a-circumflex", "euro-sign", "trade-mark-sign">>

W_jurisdiction == <<"j", "u", "r", "i", "s", "d", "i", "c", "t", "i", "o", "n">>
W_organization == <<"o", "r", "g", "a", "n", "i", "z", "a", "t", "i", "o", "n">>

\* re.sub(r"Jurisdiction.*Organization", "", j, flags=re.I) (08b line 56):
\* the match runs from the first "jurisdiction" that an "organization"
\* follows to the end of the last "organization"
RemoveBoilerplate(str) ==
    LET low == LowerStr(str)
        starts == {i \in DOMAIN str :
                     /\ MatchAt(low, W_jurisdiction, i)
                     /\ \E j \in DOMAIN str :
                           j >= i + Len(W_jurisdiction) /\ MatchAt(low, W_organization, j)}
    IN  IF starts = {} THEN str
        ELSE LET i == CHOOSE x \in starts : \A y \in starts : x <= y
                 j == CHOOSE x \in DOMAIN str :
                        /\ MatchAt(low, W_organization, x)
                        /\ \A y \in DOMAIN str : MatchAt(low, W_organization, y) => y <= x
             IN  SubSeq(str, 1, i - 1)
                   \o SubSeq(str, j + Len(W_organization), Len(str))

KeepLetters_AndDigits(str) ==
    SelectSeq(str, LAMBDA c : IsAlpha(c) \/ c \in {"'", " ", "1"})

\* re.sub(r"[^A-Za-z' ]", "", j) (08b line 57)
KeepLetters(str) == SelectSeq(str, LAMBDA c : IsAlpha(c) \/ c \in {"'", " "})

\* the cleaning of lines 54-57
CleanJurisdiction(str) ==
    StripStr(KeepLetters(StripStr(RemoveBoilerplate(
        ReplaceAll(StripStr(str), EncodingArtifact, <<"'">>)))))

\* the alias table `mapping` (08b lines 60-122), key and canonical name
mapping ==
    << <<<<"P", "R", "C">>,
         <<"C", "h", "i", "n", "a">>>>,
      <<<<"P", "e", "o", "p", "l", "e", "'", "s", " ", "R", "e", "p", "u", "b", "l", "i", "c", " ", "o", "f", " ", "C", "h", "i", "n", "a">>,
         <<"C", "h", "i", "n", "a">>>>,
      <<<<"P", "e", "o", "p", "l", "e", "s", " ", "R", "e", "p", "u", "b", "l", "i", "c", " ", "o", "f", " ", "C", "h", "i", "n", "a">>,
         <<"C", "h", "i", "n", "a">>>>,
      <<<<"C", "h", "i", "n", "a">>,
         <<"C", "h", "i", "n", "a">>>>,
      <<<<"M", "a", "i", "n", "l", "a", "n", "d", " ", "C", "h", "i", "n", "a">>,
         <<"C", "h", "i", "n", "a">>>>,
      <<<<"T", "a", "i", "w", "a", "n">>,
         <<"T", "a", "i", "w", "a", "n">>>>,
      <<<<"H", "K">>,
         <<"H", "o", "n", "g", " ", "K", "o", "n", "g">>>>,
      <<<<"H", "o", "n", "g", "k", "o", "n", "g">>,
         <<"H", "o", "n", "g", " ", "K", "o", "n", "g">>>>,
      <<<<"H", "o", "n", "g", " ", "K", "o", "n", "g">>,
         <<"H", "o", "n", "g", " ", "K", "o", "n", "g">>>>,
      <<<<"M", "a", "c", "a", "u">>,
         <<"M", "a", "c", "a", "u">>>>,
      <<<<"M", "a", "c", "a", "o">>,
         <<"M", "a", "c", "a", "u">>>>,
      <<<<"S", "G", "P">>,
         <<"S", "i", "n", "g", "a", "p", "o", "r", "e">>>>,
      <<<<"S", "i", "n", "g", "a", "p", "o", "r", "e">>,
         <<"S", "i", "n", "g", "a", "p", "o", "r", "e">>>>,
      <<<<"B", "V", "I">>,
         <<"B", "r", "i", "t", "i", "s", "h", " ", "V", "i", "r", "g", "i", "n", " ", "I", "s", "l", "a", "n", "d", "s">>>>,
      <<<<"B", "r", "i", "t", "i", "s", "h", " ", "V", "i", "r", "g", "i", "n", " ", "I", "s", "l", "a", "n", "d", "s">>,
         <<"B", "r", "i", "t", "i", "s", "h", " ", "V", "i", "r", "g", "i", "n", " ", "I", "s", "l", "a", "n", "d", "s">>>>,
      <<<<"C", "a", "y", "m", "a", "n">>,
         <<"C", "a", "y", "m", "a", "n", " ", "I", "s", "l", "a", "n", "d", "s">>>>,
      <<<<"C", "a", "y", "m", "a", "n", " ", "I", "s", "l", "a", "n", "d", "s">>,
         <<"C", "a", "y", "m", "a", "n", " ", "I", "s", "l", "a", "n", "d", "s">>>>,
      <<<<"U", "S">>,
         <<"U", "n", "i", "t", "e", "d", " ", "S", "t", "a", "t", "e", "s">>>>,
      <<<<"U", ".", "S", ".">>,
         <<"U", "n", "i", "t", "e", "d", " ", "S", "t", "a", "t", "e", "s">>>>,
      <<<<"U", "S", "A">>,
         <<"U", "n", "i", "t", "e", "d", " ", "S", "t", "a", "t", "e", "s">>>>,
      <<<<"U", "n", "i", "t", "e", "d", " ", "S", "t", "a", "t", "e", "s">>,
         <<"U", "n", "i", "t", "e", "d", " ", "S", "t", "a", "t", "e", "s">>>>,
      <<<<"T", "h", "e", " ", "U", "n", "i", "t", "e", "d", " ", "S", "t", "a", "t", "e", "s">>,
         <<"U", "n", "i", "t", "e", "d", " ", "S", "t", "a", "t", "e", "s">>>>,
      <<<<"C", "a", "l", "i", "f", "o", "r", "n", "i", "a">>,
         <<"U", "n", "i", "t", "e", "d", " ", "S", "t", "a", "t", "e", "s">>>>,
      <<<<"D", "e", "l", "a", "w", "a", "r", "e">>,
         <<"U", "n", "i", "t", "e", "d", " ", "S", "t", "a", "t", "e", "s">>>>,
      <<<<"D", "e", "l", "w", "a", "r", "e">>,
         <<"U", "n", "i", "t", "e", "d", " ", "S", "t", "a", "t", "e", "s">>>>,
      <<<<"N", "e", "v", "a", "d", "a">>,
         <<"U", "n", "i", "t", "e", "d", " ", "S", "t", "a", "t", "e", "s">>>>,
      <<<<"M", "i", "s", "s", "o", "u", "r", "i">>,
         <<"U", "n", "i", "t", "e", "d", " ", "S", "t", "a", "t", "e", "s">>>>,
      <<<<"K", "a", "n", "s", "a", "s">>,
         <<"U", "n", "i", "t", "e", "d", " ", "S", "t", "a", "t", "e", "s">>>>,
      <<<<"U", "K">>,
         <<"U", "n", "i", "t", "e", "d", " ", "K", "i", "n", "g", "d", "o", "m">>>>,
      <<<<"U", "n", "i", "t", "e", "d", " ", "K", "i", "n", "g", "d", "o", "m">>,
         <<"U", "n", "i", "t", "e", "d", " ", "K", "i", "n", "g", "d", "o", "m">>>>,
      <<<<"I", "n", "d", "i", "a">>,
         <<"I", "n", "d", "i", "a">>>>,
      <<<<"J", "a", "p", "a", "n">>,
         <<"J", "a", "p", "a", "n">>>>,
      <<<<"M", "a", "l", "a", "y", "s", "i", "a">>,
         <<"M", "a", "l", "a", "y", "s", "i", "a">>>>,
      <<<<"A", "u", "s", "t", "r", "a", "l", "i", "a">>,
         <<"A", "u", "s", "t", "r", "a", "l", "i", "a">>>>,
      <<<<"D", "u", "b", "a", "i">>,
         <<"U", "n", "i", "t", "e", "d", " ", "A", "r", "a", "b", " ", "E", "m", "i", "r", "a", "t", "e", "s">>>>,
      <<<<"U", "A", "E">>,
         <<"U", "n", "i", "t", "e", "d", " ", "A", "r", "a", "b", " ", "E", "m", "i", "r", "a", "t", "e", "s">>>> >>

\* JURIS_ISO3_MAP (08b lines 127-145), canonical name and ISO3 code
JURIS_ISO3_MAP ==
    << <<<<"C", "h", "i", "n", "a">>, "CHN">>,
      <<<<"H", "o", "n", "g", " ", "K", "o", "n", "g">>, "HKG">>,
      <<<<"M", "a", "c", "a", "u">>, "MAC">>,
      <<<<"S", "i", "n", "g", "a", "p", "o", "r", "e">>, "SGP">>,
      <<<<"B", "r", "i", "t", "i", "s", "h", " ", "V", "i", "r", "g", "i", "n", " ", "I", "s", "l", "a", "n", "d", "s">>, "VGB">>,
      <<<<"C", "a", "y", "m", "a", "n", " ", "I", "s", "l", "a", "n", "d", "s">>, "CYM">>,
      <<<<"U", "n", "i", "t", "e", "d", " ", "S", "t", "a", "t", "e", "s">>, "USA">>,
      <<<<"U", "n", "i", "t", "e", "d", " ", "K", "i", "n", "g", "d", "o", "m">>, "GBR">>,
      <<<<"I", "n", "d", "i", "a">>, "IND">>,
      <<<<"J", "a", "p", "a", "n">>, "JPN">>,
      <<<<"M", "a", "l", "a", "y", "s", "i", "a">>, "MYS">>,
      <<<<"A", "u", "s", "t", "r", "a", "l", "i", "a">>, "AUS">>,
      <<<<"U", "n", "i", "t", "e", "d", " ", "A", "r", "a", "b", " ", "E", "m", "i", "r", "a", "t", "e", "s">>, "ARE">>,
      <<<<"T", "a", "i", "w", "a", "n">>, "TWN">>,
      <<<<"P", "h", "i", "l", "i", "p", "p", "i", "n", "e", "s">>, "PHL">>,
      <<<<"C", "a", "n", "a", "d", "a">>, "CAN">>,
      <<<<"B", "e", "l", "g", "i", "u", "m">>, "BEL">> >>

\* dict.get(key, default) on a table of pairs
TableGet(table, key, default) ==
    IF \E i \in DOMAIN table : table[i][1] = key
    THEN table[CHOOSE i \in DOMAIN table : table[i][1] = key][2]
    ELSE default

AliasKeys == {mapping[i][1] : i \in DOMAIN mapping}

\* JURIS_ISO3_MAP.get(j_norm, None) (08b line 147)
Iso3Of(j_norm) == TableGet(JURIS_ISO3_MAP, j_norm, None)

\* the NaN cell of a string column
NaNStr == <<NaN>>

\* normalize_jurisdiction (08b lines 48-148); j is a string or NaN
normalize_jurisdiction(j) ==
    IF j = NaNStr \/ StripStr(j) = <<>>
    THEN [norm |-> <<>>, iso3 |-> None]
    ELSE LET j_norm == TableGet(mapping, CleanJurisdiction(j), CleanJurisdiction(j))
         IN  [norm |-> j_norm, iso3 |-> Iso3Of(j_norm)]

\* the pieces jurisdiction strings are assembled from: the text of each,
\* the characters of it that are letters, apostrophes or spaces, and its
\* part in the "Jurisdiction ... Organization" boilerplate
JAtoms ==
    << [text |-> <<"P", "R", "C">>,
         letters |-> <<"P", "R", "C">>, role |-> "word"],
      [text |-> <<"P", ".", "R", ".", "C", ".">>,
         letters |-> <<"P", "R", "C">>, role |-> "word"],
      [text |-> <<"H", "o", "n", "g">>,
         letters |-> <<"H", "o", "n", "g">>, role |-> "word"],
      [text |-> <<"K", "o", "n", "g">>,
         letters |-> <<"K", "o", "n", "g">>, role |-> "word"],
      [text |-> <<" ">>,
         letters |-> <<" ">>, role |-> "word"],
      [text |-> <<"1">>,
         letters |-> <<>>, role |-> "word"],
      [text |-> <<"C", "a", "n", "a", "d", "a">>,
         letters |-> <<"C", "a", "n", "a", "d", "a">>, role |-> "word"],
      [text |-> <<"P", "e", "r", "u">>,
         letters |-> <<"P", "e", "r", "u">>, role |-> "word"],
      [text |-> <<"J", "U", "R", "I", "S", "D", "I", "C", "T", "I", "O", "N", " ", "o", "f", " ">>,
         letters |-> <<"J", "U", "R", "I", "S", "D", "I", "C", "T", "I", "O", "N", " ", "o", "f", " ">>, role |-> "open"],
      [text |-> <<"O", "r", "g", "a", "n", "i", "z", "a", "t", "i", "o", "n">>,
         letters |-> <<"O", "r", "g", "a", "n", "i", "z", "a", "t", "i", "o", "n">>, role |-> "close"],
      [text |-> <<"C", "h", "i", "n", "a">>,
         letters |-> <<"C", "h", "i", "n", "a">>, role |-> "word"],
      [text |-> EncodingArtifact,
         letters |-> <<"'">>, role |-> "word"] >>

MaxAtoms == 3

JInputs == UNION {[1..n -> DOMAIN JAtoms] : n \in 0..MaxAtoms}

RECURSIVE Flatten(_, _)
Flatten(as, field) ==
    IF as = <<>> THEN <<>> ELSE JAtoms[Head(as)][field] \o Flatten(Tail(as), field)

\* the string an input denotes
JText(as) == Flatten(as, "text")

Normalize ==
    /\ npc = "start"
    /\ nout' = normalize_jurisdiction(JText(nin))
    /\ npc' = "done"
    /\ UNCHANGED nin
    /\ UNCHANGED <<mvars, svars, qvars, xvars>>

InitNorm ==
    /\ npc = "start"
    /\ nin \in JInputs
    /\ nout = [norm |-> <<>>, iso3 |-> None]
    /\ IdleM /\ IdleS /\ IdleQ /\ IdleX

NextNorm == Normalize

SpecNorm == InitNorm /\ [][NextNorm]_vars

(***************************************************************************)
(* Claims about normalize_jurisdiction                                     *)
(***************************************************************************)
\* what is left of an input once the boilerplate (from the first opening
\* piece that a closing piece follows, to the last closing piece) and every
\* character other than letters, apostrophes and spaces are taken out, and
\* the ends are trimmed
ExpectedClean(as) ==
    LET opens == {i \in DOMAIN as : /\ JAtoms[as[i]].role = "open"
                                    /\ \E j \in DOMAIN as :
                                          j > i /\ JAtoms[as[j]].role = "close"}
        first == CHOOSE i \in opens : \A k \in opens : i <= k
        closes == {j \in DOMAIN as : JAtoms[as[j]].role = "close"}
        last == CHOOSE j \in closes : \A k \in closes : k <= j
        kept == IF opens = {} THEN as
                ELSE SubSeq(as, 1, first - 1) \o SubSeq(as, last + 1, Len(as))
    IN  StripStr(Flatten(kept, "letters"))

Iso3Names == {JURIS_ISO3_MAP[i][1] : i \in DOMAIN JURIS_ISO3_MAP}

MaxRawRows == 2

\* re.sub(r"\s+", " ", s): runs of spaces become one space
RECURSIVE CollapseSpaces(_)
CollapseSpaces(str) ==
    IF Len(str) < 2 THEN str
    ELSE IF str[1] = " " /\ str[2] = " " THEN CollapseSpaces(Tail(str))
    ELSE <<Head(str)>> \o CollapseSpaces(Tail(str))

\* normalize_sub_name (08b lines 41-46)
normalize_sub_name(name) ==
    IF name = NaNStr THEN <<>> ELSE CollapseSpaces(StripStr(name))

\* the key of the parent and the name alone
make_uuid_NameOnly(parent_cik10, sub_name_norm, jurisdiction_norm) ==
    <<parent_cik10, "|">> \o sub_name_norm

\* make_uuid (08b lines 169-172): uuid5 of base_str, which tells base
\* strings apart; the key is written as its base string
make_uuid(parent_cik10, sub_name_norm, jurisdiction_norm) ==
    <<parent_cik10, "|">> \o sub_name_norm \o <<"|">> \o jurisdiction_norm

SubNameRaws ==
    { <<"A", "B", " ", "L", "t", "d", ".">>,
      <<" ", "A", "B", " ", " ", "L", "t", "d", ".">>,
      <<"X", "Y">>,
      NaNStr }
JurisdictionRaws ==
    { <<"P", "R", "C">>,
      <<"P", ".", "R", ".", "C", ".">>,
      <<"H", "o", "n", "g", " ", "K", "o", "n", "g">>,
      NaNStr }

\* rows of subs_ex21_raw_<date>.csv; the filing of a year has its own
\* accession number
RawSubRows ==
    {r \in [parent_ticker : {"T1"}, parent_cik10 : {"0000000001"},
            subsidiary_name_raw : SubNameRaws, jurisdiction_raw : JurisdictionRaws,
            ownership_raw : {NaN},
            exhibit_year : {2022, 2023}, accession : {"A22", "A23"},
            exhibit_label : {"EX-21"}, source_path : {"ex21.htm"}] :
        r.accession = IF r.exhibit_year = 2022 THEN "A22" ELSE "A23"}

DeriveRow_UuidWithAccession(r) ==
    LET name == normalize_sub_name(r.subsidiary_name_raw)
        jur == normalize_jurisdiction(r.jurisdiction_raw)
    IN  r @@ [subsidiary_name |-> name,
              jurisdiction_norm |-> jur.norm,
              jurisdiction_iso3 |-> jur.iso3,
              ownership_pct |-> None,
              sub_uuid |-> make_uuid(r.parent_cik10, name, jur.norm)
                              \o <<"|", r.accession>>,
              parse_confidence |-> 100,
              lineage |-> r.source_path,
              first_seen_year |-> r.exhibit_year,
              last_seen_year |-> r.exhibit_year]

\* the derived columns of one row (08b lines 181-201); the ownership cell of
\* these rows is empty, for which extract_ownership_from_text returns None
\* (lines 153-154)
DeriveRow(r) ==
    LET name == normalize_sub_name(r.subsidiary_name_raw)
        jur == normalize_jurisdiction(r.jurisdiction_raw)
    IN  r @@ [subsidiary_name |-> name,
              jurisdiction_norm |-> jur.norm,
              jurisdiction_iso3 |-> jur.iso3,
              ownership_pct |-> None,
              sub_uuid |-> make_uuid(r.parent_cik10, name, jur.norm),
              parse_confidence |-> 100,
              lineage |-> r.source_path,
              first_seen_year |-> r.exhibit_year,
              last_seen_year |-> r.exhibit_year]

SameKey(a, b) == a.parent_cik10 = b.parent_cik10 /\ a.sub_uuid = b.sub_uuid

\* the last row of each key stays
drop_duplicates_KeepLast(df) ==
    LET keep == {i \in DOMAIN df : \A j \in (i + 1)..Len(df) : ~SameKey(df[j], df[i])}
        F[i \in 0..Len(df)] ==
            IF i = 0 THEN <<>>
            ELSE IF i \in keep THEN Append(F[i - 1], df[i]) ELSE F[i - 1]
    IN  F[Len(df)]

\* drop_duplicates(subset=["parent_cik10", "sub_uuid"]) (08b line 204):
\* the first row of each key stays
drop_duplicates(df) ==
    LET keep == {i \in DOMAIN df : \A j \in 1..(i - 1) : ~SameKey(df[j], df[i])}
        F[i \in 0..Len(df)] ==
            IF i = 0 THEN <<>>
            ELSE IF i \in keep THEN Append(F[i - 1], df[i]) ELSE F[i - 1]
    IN  F[Len(df)]

\* df[final_cols] (08b lines 207-221)
FinalCols(r) ==
    [sub_uuid |-> r.sub_uuid, parent_ticker |-> r.parent_ticker,
     parent_cik10 |-> r.parent_cik10, subsidiary_name |-> r.subsidiary_name,
     jurisdiction_iso3 |-> r.jurisdiction_iso3, ownership_pct |-> r.ownership_pct,
     first_seen_year |-> r.first_seen_year, last_seen_year |-> r.last_seen_year,
     accession |-> r.accession, exhibit_label |-> r.exhibit_label,
     parse_confidence |-> r.parse_confidence, lineage |-> r.lineage]

\* the glob for the raw file and read_csv (08b lines 15-29, 178)
SubsRead ==
    /\ spc = "config"
    /\ IF sraw.exists
       THEN spc' = "derive" /\ sdf' = sraw.rows
       ELSE spc' = "aborted" /\ sdf' = sdf
    /\ UNCHANGED <<sraw, sout>>
    /\ UNCHANGED <<mvars, nvars, qvars, xvars>>

\* normalize and derive fields (08b lines 181-201)
SubsDerive ==
    /\ spc = "derive"
    /\ sdf' = [i \in DOMAIN sdf |-> DeriveRow(sdf[i])]
    /\ spc' = "dedup"
    /\ UNCHANGED <<sraw, sout>>
    /\ UNCHANGED <<mvars, nvars, qvars, xvars>>

\* deduplicate, select the columns and save (08b lines 204-225)
SubsSave ==
    /\ spc = "dedup"
    /\ sdf' = drop_duplicates(sdf)
    /\ sout' = [i \in DOMAIN drop_duplicates(sdf) |-> FinalCols(drop_duplicates(sdf)[i])]
    /\ spc' = "done"
    /\ UNCHANGED sraw
    /\ UNCHANGED <<mvars, nvars, qvars, xvars>>

InitSubs ==
    /\ spc = "config"
    /\ sraw \in {Missing} \cup {File(t) : t \in UNION {[1..n -> RawSubRows] : n \in 0..MaxRawRows}}
    /\ sdf = <<>>
    /\ sout = <<>>
    /\ IdleM /\ IdleN /\ IdleQ /\ IdleX

NextSubs == SubsRead \/ SubsDerive \/ SubsSave

SpecSubs == InitSubs /\ [][NextSubs]_vars

(***************************************************************************)
(* Claims about the subsidiary merge                                       *)
(***************************************************************************)
\* C12: the identity key is a pure function of (parent identifier,
\* normalized name, normalized jurisdiction).  Once the keys are derived,
\* any two rows with the same triple have the same key, whatever their
\* year, accession or position in the table, and the key of a row is what
\* make_uuid returns for its triple when called again.
C12_KeyIsFunctionOfTriple ==
    spc \in {"dedup", "done"} =>
        \A i, j \in DOMAIN sdf :
            /\ sdf[i].sub_uuid = make_uuid(sdf[i].parent_cik10, sdf[i].subsidiary_name,
                                           sdf[i].jurisdiction_norm)
            /\ (/\ sdf[i].parent_cik10 = sdf[j].parent_cik10
                /\ sdf[i].subsidiary_name = sdf[j].subsidiary_name
                /\ sdf[i].jurisdiction_norm = sdf[j].jurisdiction_norm)
                  => sdf[i].sub_uuid = sdf[j].sub_uuid

C12_Witness ==
    /\ spc = "dedup"
    /\ \E i, j \in DOMAIN sdf :
          /\ i < j
          /\ sdf[i].subsidiary_name_raw # sdf[j].subsidiary_name_raw
          /\ sdf[i].jurisdiction_raw # sdf[j].jurisdiction_raw
          /\ sdf[i].exhibit_year # sdf[j].exhibit_year
          /\ sdf[i].accession # sdf[j].accession
          /\ sdf[i].sub_uuid = sdf[j].sub_uuid

SameSubsidiary(a, b) ==
    /\ a.parent_cik10 = b.parent_cik10
    /\ normalize_sub_name(a.subsidiary_name_raw) = normalize_sub_name(b.subsidiary_name_raw)
    /\ normalize_jurisdiction(a.jurisdiction_raw).norm
         = normalize_jurisdiction(b.jurisdiction_raw).norm

KeyOf(a) ==
    make_uuid(a.parent_cik10, normalize_sub_name(a.subsidiary_name_raw),
              normalize_jurisdiction(a.jurisdiction_raw).norm)

\* the (parent identifier, identity key) pair of a raw row
PairOf(a) == <<a.parent_cik10, KeyOf(a)>>

\* C22: uniqueness of the subsidiary master.  No two rows of the table
\* written share a (parent identifier, identity key) pair, every pair of
\* the raw rows is in the table, and the row of a pair is the first raw
\* row with the pair: it has that row's year, accession and source.
C22_MasterUnique ==
    spc = "done" =>
        /\ \A i, j \in DOMAIN sout :
              (sout[i].parent_cik10 = sout[j].parent_cik10
                 /\ sout[i].sub_uuid = sout[j].sub_uuid) => i = j
        /\ \A i \in DOMAIN sraw.rows :
              LET first == CHOOSE f \in DOMAIN sraw.rows :
                              /\ PairOf(sraw.rows[f]) = PairOf(sraw.rows[i])
                              /\ \A g \in 1..(f - 1) :
                                    PairOf(sraw.rows[g]) # PairOf(sraw.rows[i])
              IN  \E k \in DOMAIN sout :
                    /\ <<sout[k].parent_cik10, sout[k].sub_uuid>> = PairOf(sraw.rows[i])
                    /\ sout[k].first_seen_year = sraw.rows[first].exhibit_year
                    /\ sout[k].accession = sraw.rows[first].accession
                    /\ sout[k].lineage = sraw.rows[first].source_path

\* two raw rows of one pair and of different years: one row is written,
\* with the year of the first
C22_Witness ==
    /\ spc = "done"
    /\ Len(sraw.rows) = 2
    /\ PairOf(sraw.rows[1]) = PairOf(sraw.rows[2])
    /\ sraw.rows[1].exhibit_year # sraw.rows[2].exhibit_year
    /\ Len(sout) = 1
    /\ sout[1].first_seen_year = sraw.rows[1].exhibit_year

\* pd.read_csv of a subsidiary table by the checker (09 line 193): an
\* empty cell is NaN
ReadSubs(tbl) ==
    [i \in DOMAIN tbl |->
        [sub_uuid |-> tbl[i].sub_uuid, parent_ticker |-> tbl[i].parent_ticker,
         parent_cik10 |-> tbl[i].parent_cik10,
         jurisdiction_iso3 |-> IF tbl[i].jurisdiction_iso3 = None
                               THEN NaN ELSE tbl[i].jurisdiction_iso3]]

\* the drift defects the checker logs for a table
DriftLogged(tbl) ==
    DriftEntriesIn(ReadSubs(tbl), Unique(Column(tbl, "sub_uuid")))

\* C28: drift detection is vacuous on the output of the merge.  Once the
\* keys are derived, rows with the same identity key have the same ISO3
\* code, before and after the dedup, and the drift check logs no
\* JURISDICTION_DRIFT for the derived table or for the table written.
C28_NoDriftOnMergeOutput ==
    /\ spc \in {"dedup", "done"} =>
          /\ \A i, j \in DOMAIN sdf :
                sdf[i].sub_uuid = sdf[j].sub_uuid
                    => sdf[i].jurisdiction_iso3 = sdf[j].jurisdiction_iso3
          /\ DriftLogged(sdf) = <<>>
    /\ spc = "done" => DriftLogged(sout) = <<>>

\* two derived rows of one key whose raw jurisdictions are written
\* differently
C28_Witness ==
    /\ spc = "dedup"
    /\ \E i, j \in DOMAIN sdf :
          /\ i # j
          /\ sdf[i].sub_uuid = sdf[j].sub_uuid
          /\ sdf[i].jurisdiction_raw # sdf[j].jurisdiction_raw
          /\ sdf[i].jurisdiction_iso3 = "CHN"

\* C2: dedup correctness.  When the raw file holds two rows of the same
\* parent, normalized name and normalized jurisdiction, of years 2022 and
\* 2023 in either order, the master table holds exactly one row for them,
\* with first_seen_year 2022 and last_seen_year 2023.
C2_DedupKeepsYearRange ==
    spc = "done" =>
        \A i, j \in DOMAIN sraw.rows :
            (/\ SameSubsidiary(sraw.rows[i], sraw.rows[j])
             /\ sraw.rows[i].exhibit_year = 2022
             /\ sraw.rows[j].exhibit_year = 2023) =>
                /\ Cardinality({k \in DOMAIN sout :
                                   /\ sout[k].sub_uuid = KeyOf(sraw.rows[i])
                                   /\ sout[k].parent_cik10 = sraw.rows[i].parent_cik10}) = 1
                /\ \A k \in DOMAIN sout :
                      sout[k].sub_uuid = KeyOf(sraw.rows[i]) =>
                          /\ sout[k].first_seen_year = 2022
                          /\ sout[k].last_seen_year = 2023

(***************************************************************************)
(* 02_resolve_cik.py: resolve_mappings                                     *)
(***************************************************************************)
MaxRoster == 3

\* rows of uscc_df after load_uscc_file (02 lines 35-38): tickers in upper
\* case, an empty cell NaN
RosterRows == [ticker : {"AAA", "BBB", NaN}, company_name : {"N1", NaN}]

\* sec_map as load_sec_mapping builds it (02 lines 29-32): upper-case
\* ticker -> ten-digit identifier
SecMaps ==
    UNION {[d -> {"0000000001", "0000000002"}] : d \in SUBSET {"AAA", "BBB"}}

resolve_row_Blank(map, row) ==
    [ticker |-> row.ticker,
     cik10 |-> IF row.ticker \in DOMAIN map THEN map[row.ticker] ELSE "",
     company_name_uscc |-> row.company_name,
     mapping_source |-> IF row.ticker \in DOMAIN map THEN "SEC_official" ELSE "not_found",
     resolved_at |-> "utcnow"]

\* the record of one row (02 lines 46-64)
resolve_row(map, row) ==
    [ticker |-> row.ticker,
     cik10 |-> IF row.ticker \in DOMAIN map THEN map[row.ticker] ELSE "PENDING",
     company_name_uscc |-> row.company_name,
     mapping_source |-> IF row.ticker \in DOMAIN map THEN "SEC_official" ELSE "not_found",
     resolved_at |-> "utcnow"]

\* one iteration of the loop over uscc_df (02 lines 45-64)
ResolveRow ==
    /\ rpc = "loop"
    /\ Len(resolved_rows) < Len(uscc_df)
    /\ LET row == uscc_df[Len(resolved_rows) + 1]
       IN  /\ resolved_rows' = Append(resolved_rows, resolve_row(sec_map, row))
           /\ missing' = IF row.ticker \in DOMAIN sec_map THEN missing
                         ELSE Append(missing, row.ticker)
    /\ UNCHANGED <<rpc, uscc_df, sec_map>>
    /\ UNCHANGED <<mvars, nvars, svars, qvars, cvars, avars, evars, yvars>>

\* return pd.DataFrame(resolved_rows), missing (02 line 66)
ResolveReturn ==
    /\ rpc = "loop"
    /\ Len(resolved_rows) = Len(uscc_df)
    /\ rpc' = "done"
    /\ UNCHANGED <<uscc_df, sec_map, resolved_rows, missing>>
    /\ UNCHANGED <<mvars, nvars, svars, qvars, cvars, avars, evars, yvars>>

InitResolve ==
    /\ rpc = "loop"
    /\ uscc_df \in UNION {[1..n -> RosterRows] : n \in 0..MaxRoster}
    /\ sec_map \in SecMaps
    /\ resolved_rows = <<>>
    /\ missing = <<>>
    /\ IdleM /\ IdleN /\ IdleS /\ IdleQ /\ IdleC /\ IdleA /\ IdleE /\ IdleY

NextResolve == ResolveRow \/ ResolveReturn

SpecResolve == InitResolve /\ [][NextResolve]_vars

\* the tickers of the first n roster rows that the table does not hold
RECURSIVE UnmappedTickers(_)
UnmappedTickers(n) ==
    IF n = 0 THEN <<>>
    ELSE IF uscc_df[n].ticker \in DOMAIN sec_map THEN UnmappedTickers(n - 1)
    ELSE Append(UnmappedTickers(n - 1), uscc_df[n].ticker)

\* C11: resolver totality.  The records follow the roster rows one for one
\* and in order; a ticker of the table gets the table's identifier and
\* SEC_official, any other ticker PENDING and not_found; `missing` is the
\* sequence of the tickers that got PENDING; when the function returns
\* every row has its record.
C11_ResolverTotal ==
    /\ rpc \in {"loop", "done"}
    /\ Len(resolved_rows) <= Len(uscc_df)
    /\ rpc = "done" => Len(resolved_rows) = Len(uscc_df)
    /\ \A i \in DOMAIN resolved_rows :
          /\ resolved_rows[i].ticker = uscc_df[i].ticker
          /\ IF uscc_df[i].ticker \in DOMAIN sec_map
             THEN /\ resolved_rows[i].cik10 = sec_map[uscc_df[i].ticker]
                  /\ resolved_rows[i].mapping_source = "SEC_official"
             ELSE /\ resolved_rows[i].cik10 = "PENDING"
                  /\ resolved_rows[i].mapping_source = "not_found"
    /\ missing = UnmappedTickers(Len(resolved_rows))

C11_Witness ==
    /\ rpc = "done" /\ Len(uscc_df) = 3
    /\ \E i, j \in DOMAIN resolved_rows :
          /\ resolved_rows[i].cik10 = "PENDING"
          /\ resolved_rows[j].mapping_source = "SEC_official"
    /\ Len(missing) = 2

(***************************************************************************)
(* 08b_subsidiaries_master_merge.py: extract_ownership_from_text           *)
(***************************************************************************)
MaxTokens == 3

Digits == {"0", "1", "2", "3", "4", "5", "6", "7", "8", "9"}
IsDigit(c) == c \in Digits
\* \w, for the word boundary \b
IsWordChar(c) == IsAlpha(c) \/ IsDigit(c) \/ c = "_"

\* the position after the longest run of characters from i on that
\* are in cs (i itself when there is none)
RECURSIVE RunEnd(_, _, _)
RunEnd(str, i, cs) ==
    IF i <= Len(str) /\ str[i] \in cs THEN RunEnd(str, i + 1, cs) ELSE i

\* the position after \d+(?:\.\d+)? matched at i; i when it does not match
NumberEnd(str, i) ==
    LET e == RunEnd(str, i, Digits)
    IN  IF e = i THEN i
        ELSE IF e < Len(str) /\ str[e] = "." /\ IsDigit(str[e + 1])
        THEN RunEnd(str, e + 1, Digits)
        ELSE e

\* \b at position i: exactly one of the characters before and at i is a
\* word character
WordBoundary(str, i) ==
    (i > 1 /\ i - 1 <= Len(str) /\ IsWordChar(str[i - 1]))
       # (i <= Len(str) /\ IsWordChar(str[i]))

DigitValue(c) ==
    CASE c = "0" -> 0 [] c = "1" -> 1 [] c = "2" -> 2 [] c = "3" -> 3 [] c = "4" -> 4
      [] c = "5" -> 5 [] c = "6" -> 6 [] c = "7" -> 7 [] c = "8" -> 8 [] c = "9" -> 9

RECURSIVE ParseInt(_)
ParseInt(ds) ==
    IF ds = <<>> THEN 0
    ELSE 10 * ParseInt(SubSeq(ds, 1, Len(ds) - 1)) + DigitValue(ds[Len(ds)])

\* float(s) for s of the form \d+(\.\d+)?, in hundredths (decimals beyond
\* the second are not used by the texts of the model)
ParseFloat(num) ==
    LET e == RunEnd(num, 1, Digits)
        frac == SubSeq(num, e + 1, Len(num)) \o <<"0", "0">>
    IN  100 * ParseInt(SubSeq(num, 1, e - 1)) + ParseInt(SubSeq(frac, 1, 2))

W_percent == <<"p", "e", "r", "c", "e", "n", "t">>
W_wholly == <<"w", "h", "o", "l", "l", "y">>

\* the regex of line 158 matched at position i: the number matched, <<>>
\* when there is no match at i.  (\d+(?:\.\d+)?)\s*% is tried first, then
\* \b(\d+(?:\.\d+)?)\s*percent\b
OwnershipMatchAt(str, i) ==
    LET e == NumberEnd(str, i)
        k == RunEnd(str, e, {" "})
    IN  IF e = i THEN <<>>
        ELSE IF k <= Len(str) /\ str[k] = "%" THEN SubSeq(str, i, e - 1)
        ELSE IF /\ WordBoundary(str, i)
                /\ MatchAt(str, W_percent, k)
                /\ WordBoundary(str, k + Len(W_percent))
        THEN SubSeq(str, i, e - 1)
        ELSE <<>>

Contains(str, pat) == \E i \in 1..Len(str) : MatchAt(str, pat, i)

extract_ownership_NumberOnly(text) ==
    IF text = NaNStr THEN <<>>
    ELSE LET low == LowerStr(text)
             hits == {i \in 1..Len(low) : OwnershipMatchAt(low, i) # <<>>}
         IN  IF hits # {}
             THEN <<ParseFloat(OwnershipMatchAt(low, CHOOSE i \in hits : \A j \in hits : i <= j))>>
             ELSE <<>>

\* extract_ownership_from_text (08b lines 151-166); the result is <<>> for
\* None and <<v>> for the float v, in hundredths of a percent
extract_ownership_from_text(text) ==
    IF text = NaNStr THEN <<>>
    ELSE LET low == LowerStr(text)
             hits == {i \in 1..Len(low) : OwnershipMatchAt(low, i) # <<>>}
         IN  IF hits # {}
             THEN <<ParseFloat(OwnershipMatchAt(low, CHOOSE i \in hits : \A j \in hits : i <= j))>>
             ELSE IF Contains(low, W_wholly) THEN <<10000>>
             ELSE <<>>

\* the words ownership texts are assembled from: a number with its sign
\* ("numpct"), a bare number ("num"), the sign, the word percent, the cue
\* wholly, and other words
OTokens ==
    { [text |-> <<"8", "4", ".", "3", "2", "%">>,
       kind |-> "numpct", value |-> 8432],
      [text |-> <<"6", "0", "p", "e", "r", "c", "e", "n", "t">>,
       kind |-> "numpct", value |-> 6000],
      [text |-> <<"0", "%">>,
       kind |-> "numpct", value |-> 0],
      [text |-> <<"1", "5", "0", "%">>,
       kind |-> "numpct", value |-> 15000],
      [text |-> <<"5", "1">>,
       kind |-> "num", value |-> 5100],
      [text |-> <<"4">>,
       kind |-> "num", value |-> 400],
      [text |-> <<"%">>,
       kind |-> "pct", value |-> 0],
      [text |-> <<"P", "e", "r", "c", "e", "n", "t">>,
       kind |-> "percent", value |-> 0],
      [text |-> <<"p", "e", "r", "c", "e", "n", "t", "a", "g", "e">>,
       kind |-> "other", value |-> 0],
      [text |-> <<"W", "h", "o", "l", "l", "y", "-", "o", "w", "n", "e", "d">>,
       kind |-> "wholly", value |-> 0],
      [text |-> <<"n", "o", "t", "e">>,
       kind |-> "other", value |-> 0] }

\* words joined by single spaces
RECURSIVE JoinWords(_)
JoinWords(ts) ==
    IF ts = <<>> THEN <<>>
    ELSE IF Len(ts) = 1 THEN ts[1].text
    ELSE ts[1].text \o <<" ">> \o JoinWords(Tail(ts))

\* the ownership_raw cells: NaN, or a text of one to MaxTokens words
OwnershipInputs ==
    {<<>>} \cup UNION {[1..n -> OTokens] : n \in 1..MaxTokens}

OwnershipText(ts) == IF ts = <<>> THEN NaNStr ELSE JoinWords(ts)

\* df["ownership_raw"].apply(extract_ownership_from_text) on one cell
\* (08b line 185)
CallOwnership ==
    /\ cpc = "call"
    /\ cres' = extract_ownership_from_text(OwnershipText(carg))
    /\ cpc' = "done"
    /\ UNCHANGED carg
    /\ UNCHANGED <<mvars, nvars, svars, qvars, rvars, avars, evars, yvars>>

InitOwnership ==
    /\ cpc = "call"
    /\ carg \in OwnershipInputs
    /\ cres = <<>>
    /\ IdleM /\ IdleN /\ IdleS /\ IdleQ /\ IdleR /\ IdleA /\ IdleE /\ IdleY

NextOwnership == CallOwnership

SpecOwnership == InitOwnership /\ [][NextOwnership]_vars

\* the positions of the words that are a numeric value followed by "%" or
\* by the word percent
PercentWords(ts) ==
    {i \in DOMAIN ts :
        \/ ts[i].kind = "numpct"
        \/ ts[i].kind = "num" /\ i < Len(ts) /\ ts[i + 1].kind \in {"pct", "percent"}}

\* C13: ownership-percentage extraction.  The result is the first numeric
\* value followed by "%" or the word percent when the text has one;
\* otherwise exactly 100.0 when the text contains "wholly" in any case;
\* otherwise null (and not zero); an empty cell gives null.
C13_OwnershipExtraction ==
    cpc = "done" =>
        IF PercentWords(carg) # {}
        THEN cres = <<carg[CHOOSE i \in PercentWords(carg) :
                              \A j \in PercentWords(carg) : i <= j].value>>
        ELSE IF \E i \in DOMAIN carg : carg[i].kind = "wholly"
        THEN cres = <<10000>>
        ELSE cres = <<>> /\ cres # <<0>>

\* C23: ownership range.  The percentage extracted from an ownership text
\* is null or a number from 0 to 100 (values are in hundredths).
C23_OwnershipInRange ==
    cpc = "done" => (cres = <<>> \/ (cres[1] >= 0 /\ cres[1] <= 100 * 100))

C13_Witness ==
    /\ cpc = "done" /\ Len(carg) = 3
    /\ carg[1].kind = "wholly" /\ carg[2].kind = "num" /\ carg[3].kind = "other"
    /\ cres = <<10000>>

(***************************************************************************)
(* 07_parse_ex3_charters.py: potential_address                             *)
(***************************************************************************)
MaxPhrases == 3

\* exclusions (07 lines 100-105)
exclusions ==
    { <<"i", "d", "e", "n", "t", "i", "t", "y", " ", "c", "a", "r", "d">>,
      <<"c", "i", "k">>,
      <<"t", "i", "c", "k", "e", "r">>,
      <<"p", "r", "c", " ", "i", "d", "e", "n", "t", "i", "t", "y">>,
      <<"p", "r", "c", " ", "i", "d">>,
      <<"s", "e", "c", "t", "i", "o", "n">>,
      <<"a", "c", "t">>,
      <<"a", "g", "r", "e", "e", "m", "e", "n", "t">>,
      <<"p", "a", "r", "t", "y">>,
      <<"s", "h", "a", "r", "e", "h", "o", "l", "d", "e", "r">>,
      <<"c", "o", "m", "p", "a", "n", "y">>,
      <<"d", "i", "r", "e", "c", "t", "o", "r">>,
      <<"m", "e", "m", "b", "e", "r">>,
      <<"n", "o", "t", "i", "c", "e">>,
      <<"h", "e", "r", "e", "b", "y">>,
      <<"t", "h", "e", "r", "e", "f", "o", "r", "e">>,
      <<"s", "h", "a", "l", "l">>,
      <<"e", "x", "h", "i", "b", "i", "t">> }

\* the phrases of address_patterns (07 lines 111-113): `.*` matches the
\* empty string, the space before it has to be there
lead_phrases ==
    { <<"a", "d", "d", "r", "e", "s", "s", " ", "a", "t", " ">>,
      <<"r", "e", "g", "i", "s", "t", "e", "r", "e", "d", " ", "i", "n", " ">>,
      <<"l", "o", "c", "a", "t", "e", "d", " ", "a", "t", " ">> }

\* the alternatives of (?:no\.?|room|suite|unit|floor|building|apt|#)
\* (07 line 120)
number_leads ==
    { <<"n", "o", ".">>,
      <<"n", "o">>,
      <<"r", "o", "o", "m">>,
      <<"s", "u", "i", "t", "e">>,
      <<"u", "n", "i", "t">>,
      <<"f", "l", "o", "o", "r">>,
      <<"b", "u", "i", "l", "d", "i", "n", "g">>,
      <<"a", "p", "t">>,
      <<"#">> }

\* street_keywords (07 lines 124-128)
street_keywords ==
    { <<"s", "t", "r", "e", "e", "t">>,
      <<"s", "t", ".">>,
      <<"r", "o", "a", "d">>,
      <<"r", "d", ".">>,
      <<"a", "v", "e", "n", "u", "e">>,
      <<"a", "v", "e">>,
      <<"l", "a", "n", "e">>,
      <<"l", "n">>,
      <<"b", "o", "u", "l", "e", "v", "a", "r", "d">>,
      <<"b", "l", "v", "d">>,
      <<"d", "r", "i", "v", "e">>,
      <<"d", "r", ".">>,
      <<"c", "o", "u", "r", "t">>,
      <<"c", "t", ".">>,
      <<"s", "q", "u", "a", "r", "e">>,
      <<"s", "q">>,
      <<"c", "i", "r", "c", "l", "e">>,
      <<"p", "l", "a", "z", "a">>,
      <<"t", "e", "r", "r", "a", "c", "e">>,
      <<"t", "r", "a", "i", "l">>,
      <<"w", "a", "y">> }

\* city_keywords (07 lines 132-135)
city_keywords ==
    { <<"b", "e", "i", "j", "i", "n", "g">>,
      <<"s", "h", "a", "n", "g", "h", "a", "i">>,
      <<"h", "a", "n", "g", "z", "h", "o", "u">>,
      <<"n", "i", "n", "g", "b", "o">>,
      <<"h", "o", "n", "g", " ", "k", "o", "n", "g">>,
      <<"s", "i", "n", "g", "a", "p", "o", "r", "e">>,
      <<"c", "a", "y", "m", "a", "n">>,
      <<"k", "y", "1">>,
      <<"p", "r", "c">> }

ContainsAny(str, pats) == \E pat \in pats : Contains(str, pat)

\* lead at position i, then \s*\d+
LeadThenDigits(str, lead, i) ==
    /\ MatchAt(str, lead, i)
    /\ LET k == RunEnd(str, i + Len(lead), {" "})
       IN  k <= Len(str) /\ IsDigit(str[k])

\* re.search(r'no\.?\s*\d+', line_lower) (07 line 114)
HasBuildingNo(low) ==
    \E i \in 1..Len(low) : \E lead \in {<<"n", "o">>, <<"n", "o", ".">>} :
        LeadThenDigits(low, lead, i)

\* has_number (07 line 120)
HasNumber(low) ==
    \E i \in 1..Len(low) :
        WordBoundary(low, i) /\ \E lead \in number_leads : LeadThenDigits(low, lead, i)

\* has_postal (07 line 121): \b\d{5,6}(-\d{4})?\b
HasPostal(line) ==
    \E i \in 1..Len(line) :
        /\ IsDigit(line[i]) /\ WordBoundary(line, i)
        /\ \E n \in {5, 6} :
              /\ RunEnd(line, i, Digits) >= i + n
              /\ \/ WordBoundary(line, i + n)
                 \/ /\ i + n <= Len(line) /\ line[i + n] = "-"
                    /\ RunEnd(line, i + n + 1, Digits) >= i + n + 5
                    /\ WordBoundary(line, i + n + 5)

\* len(line.split())
WordCount(line) ==
    Cardinality({i \in 1..Len(line) :
                    line[i] # " " /\ (i = 1 \/ line[i - 1] = " ")})

potential_address_PatternsFirst(line0) ==
    LET line == StripStr(line0)
        low == LowerStr(line)
    IN  \/ ContainsAny(low, lead_phrases) \/ HasBuildingNo(low)
        \/ /\ ~ContainsAny(low, exclusions)
           /\ \/ (HasNumber(low) \/ HasPostal(line))
                    /\ (ContainsAny(low, street_keywords) \/ ContainsAny(low, city_keywords))
              \/ ContainsAny(low, city_keywords) /\ WordCount(line) <= 6

potential_address_NoShortCity(line0) ==
    LET line == StripStr(line0)
        low == LowerStr(line)
    IN  /\ ~ContainsAny(low, exclusions)
        /\ \/ ContainsAny(low, lead_phrases) \/ HasBuildingNo(low)
           \/ (HasNumber(low) \/ HasPostal(line))
                 /\ (ContainsAny(low, street_keywords) \/ ContainsAny(low, city_keywords))

\* potential_address (07 lines 95-144)
potential_address(line0) ==
    LET line == StripStr(line0)
        low == LowerStr(line)
        has_number == HasNumber(low)
        has_postal == HasPostal(line)
        has_street == ContainsAny(low, street_keywords)
        has_city == ContainsAny(low, city_keywords)
    IN  IF ContainsAny(low, exclusions) THEN FALSE
        ELSE IF ContainsAny(low, lead_phrases) \/ HasBuildingNo(low) THEN TRUE
        ELSE IF (has_number \/ has_postal) /\ (has_street \/ has_city) THEN TRUE
        ELSE has_city /\ WordCount(line) <= 6

\* the phrases lines are assembled from, joined by single spaces, each with
\* what it holds: an exclusion keyword ("excl"), a building number
\* ("lead"), a lead phrase ("phrase", a lead when text follows it), a
\* street/unit number ("number"), a postal code, a street-type keyword, a
\* city keyword; and its number of words
Phrases ==
    { [text |-> <<"U", "n", "i", "t", " ", "1", "2", ",">>,
       marks |-> {"number"}, words |-> 2],
      [text |-> <<"8", "8">>,
       marks |-> {}, words |-> 1],
      [text |-> <<"Q", "u", "e", "e", "n", "s", "w", "a", "y", ",">>,
       marks |-> {"street"}, words |-> 1],
      [text |-> <<"H", "o", "n", "g", " ", "K", "o", "n", "g">>,
       marks |-> {"city"}, words |-> 2],
      [text |-> <<"N", "o", ".", " ", "8">>,
       marks |-> {"lead", "number"}, words |-> 2],
      [text |-> <<"l", "o", "c", "a", "t", "e", "d", " ", "a", "t">>,
       marks |-> {"phrase"}, words |-> 2],
      [text |-> <<"1", "0", "0", "0", "0", "0">>,
       marks |-> {"postal"}, words |-> 1],
      [text |-> <<"A", "g", "r", "e", "e", "m", "e", "n", "t">>,
       marks |-> {"excl"}, words |-> 1],
      [text |-> <<"S", "e", "c", "t", "i", "o", "n", " ", "4", ".", "2", ",", " ", "t", "h", "e", " ", "C", "o", "m", "p", "a", "n", "y", " ", "s", "h", "a", "l", "l">>,
       marks |-> {"excl"}, words |-> 5],
      [text |-> <<"T", "o", "w", "e", "r", " ", "o", "n", "e", " ", "t", "w", "o", " ", "t", "h", "r", "e", "e", " ", "f", "o", "u", "r">>,
       marks |-> {}, words |-> 5] }

PhraseInputs == UNION {[1..n -> Phrases] : n \in 1..MaxPhrases}

\* potential_address(line_clean) (07 line 157)
CallPotentialAddress ==
    /\ cpc = "call"
    /\ cres' = potential_address(JoinWords(carg))
    /\ cpc' = "done"
    /\ UNCHANGED carg
    /\ UNCHANGED <<mvars, nvars, svars, qvars, rvars, avars, evars, yvars>>

InitPotential ==
    /\ cpc = "call"
    /\ carg \in PhraseInputs
    /\ cres = <<>>
    /\ IdleM /\ IdleN /\ IdleS /\ IdleQ /\ IdleR /\ IdleA /\ IdleE /\ IdleY

NextPotential == CallPotentialAddress

SpecPotential == InitPotential /\ [][NextPotential]_vars

Marked(ts, m) == \E i \in DOMAIN ts : m \in ts[i].marks

RECURSIVE Words(_)
Words(ts) == IF ts = <<>> THEN 0 ELSE ts[1].words + Words(Tail(ts))

LeadMatch(ts) ==
    \/ Marked(ts, "lead")
    \/ \E i \in DOMAIN ts : "phrase" \in ts[i].marks /\ i < Len(ts)

\* C14: exclusion precedence.  A line that contains an exclusion keyword
\* is never classified as a potential address, whatever else it matches.
C14_ExclusionPrecedence ==
    (cpc = "done" /\ Marked(carg, "excl")) => cres = FALSE

C14_Witness ==
    /\ cpc = "done" /\ Marked(carg, "excl")
    /\ LeadMatch(carg) /\ Marked(carg, "number") /\ Marked(carg, "city")
    /\ cres = FALSE

\* C17 as stated: a line without exclusion keyword is a potential address
\* exactly when it matches a lead phrase or building number, or holds a
\* street/unit number with a street-type or city keyword, or has at most 6
\* words and a city keyword.
C17_ClassificationRule ==
    (cpc = "done" /\ ~Marked(carg, "excl")) =>
        (cres = TRUE <=>
            \/ LeadMatch(carg)
            \/ Marked(carg, "number") /\ (Marked(carg, "street") \/ Marked(carg, "city"))
            \/ Words(carg) <= 6 /\ Marked(carg, "city"))

\* C17 (amended): as above, where a postal code (a number of five or six
\* digits) counts like a street/unit number.
C17_ClassificationRuleWithPostal ==
    (cpc = "done" /\ ~Marked(carg, "excl")) =>
        (cres = TRUE <=>
            \/ LeadMatch(carg)
            \/ (Marked(carg, "number") \/ Marked(carg, "postal"))
                  /\ (Marked(carg, "street") \/ Marked(carg, "city"))
            \/ Words(carg) <= 6 /\ Marked(carg, "city"))

\* "Unit 12, 88 Queensway, Hong Kong" is a potential address
C17_Witness ==
    /\ cpc = "done" /\ Len(carg) = 3
    /\ carg[1].marks = {"number"} /\ carg[2].marks = {"street"} /\ carg[3].marks = {"city"}
    /\ cres = TRUE

(***************************************************************************)
(* 07_parse_ex3_charters.py: extract_addresses and main                    *)
(***************************************************************************)
MaxLines == 3

\* clean_text (07 lines 51-52)
clean_text(txt) == StripStr(CollapseSpaces(txt))

\* " ".join(lines)
JoinLines(ls) == JoinWords([i \in DOMAIN ls |-> [text |-> ls[i]]])

\* classify_address_type (07 lines 82-92)
classify_address_type(line) ==
    LET line_lower == LowerStr(line)
    IN  IF ContainsAny(line_lower, {<<"r", "e", "g", "i", "s", "t", "e", "r", "e", "d", " ", "o", "f", "f", "i", "c", "e">>,
                                    <<"r", "e", "g", "i", "s", "t", "e", "r", "e", "d", " ", "i", "n">>,
                                    <<"i", "n", "c", "o", "r", "p", "o", "r", "a", "t", "e", "d", " ", "i", "n">>})
        THEN "registered_office"
        ELSE IF ContainsAny(line_lower, {<<"p", "r", "i", "n", "c", "i", "p", "a", "l", " ", "e", "x", "e", "c", "u", "t", "i", "v", "e", " ", "o", "f", "f", "i", "c", "e">>,
                                         <<"p", "r", "i", "n", "c", "i", "p", "a", "l", " ", "o", "f", "f", "i", "c", "e">>})
        THEN "principal_office"
        ELSE IF ContainsAny(line_lower, {<<"a", "g", "e", "n", "t">>,
                                         <<"r", "e", "p", "r", "e", "s", "e", "n", "t", "a", "t", "i", "v", "e">>})
        THEN "agent_address"
        ELSE "other"

\* the lines parse_html_ex3 hands over: cleaned, non-empty, no line twice
\* (07 lines 60-62)
DocLines ==
    { <<"8", "8", " ", "Q", "u", "e", "e", "n", "s", "w", "a", "y", ",", " ", "H", "o", "n", "g", " ", "K", "o", "n", "g">>,
      <<"8", "8", " ", "Q", "u", "e", "e", "n", "s", "w", "a", "y", " ", "H", "o", "n", "g", " ", "K", "o", "n", "g">>,
      <<"8", "8", " ", "Q", "U", "E", "E", "N", "S", "W", "A", "Y", ",", " ", "H", "O", "N", "G", " ", "K", "O", "N", "G">>,
      <<"c", "/", "o", " ", "M", "a", "p", "l", "e", "s", ",", " ", "C", "a", "y", "m", "a", "n">>,
      <<"T", "a", "b", "l", "e", " ", "o", "f", " ", "c", "o", "n", "t", "e", "n", "t", "s">>,
      <<"T", "h", "e", " ", "C", "a", "y", "m", "a", "n", " ", "I", "s", "l", "a", "n", "d", "s">> }

\* potential_address on the lines of the model, evaluated once
AddressLines == {l \in DocLines : potential_address(clean_text(l))}

\* the end of a block (07 lines 161-167, 170-175)
CloseBlock(st) ==
    IF st.current_block = <<>> THEN st
    ELSE LET block_text == JoinLines(st.current_block)
         IN  IF LowerStr(block_text) \in st.seen
             THEN [st EXCEPT !.current_block = <<>>]
             ELSE [results |-> Append(st.results,
                                  [address_raw |-> block_text,
                                   address_type |-> classify_address_type(block_text)]),
                   seen |-> st.seen \cup {LowerStr(block_text)},
                   current_block |-> <<>>]

\* the loop of extract_addresses over the first n lines (07 lines 151-167)
RECURSIVE ScanLines(_, _)
ScanLines(lines, n) ==
    IF n = 0 THEN [results |-> <<>>, seen |-> {}, current_block |-> <<>>]
    ELSE LET st == ScanLines(lines, n - 1)
             line_clean == clean_text(lines[n])
         IN  IF line_clean = <<>> THEN st
             ELSE IF (IF lines[n] \in DocLines THEN lines[n] \in AddressLines
                      ELSE potential_address(line_clean))
             THEN [st EXCEPT !.current_block = Append(st.current_block, line_clean)]
             ELSE CloseBlock(st)

extract_addresses_NoLeftover(lines) == ScanLines(lines, Len(lines)).results

\* extract_addresses (07 lines 146-177)
extract_addresses(lines) == CloseBlock(ScanLines(lines, Len(lines))).results

\* string.punctuation, as far as the lines of the model use it
Punctuation == {",", ".", ":", ";", "/", "'", "-", "#", "%", "&"}

\* canonical_map (07 lines 180-184)
canonical_map ==
    << <<<<"t", "h", "e", " ", "c", "a", "y", "m", "a", "n", " ", "i", "s", "l", "a", "n", "d", "s">>,
         <<"C", "a", "y", "m", "a", "n", " ", "I", "s", "l", "a", "n", "d", "s">>>>,
       <<<<"t", "e", "r", "r", "i", "t", "o", "r", "y", " ", "o", "f", " ", "t", "h", "e", " ", "c", "a", "y", "m", "a", "n", " ", "i", "s", "l", "a", "n", "d", "s">>,
         <<"C", "a", "y", "m", "a", "n", " ", "I", "s", "l", "a", "n", "d", "s">>>>,
       <<<<"h", "o", "n", "g", " ", "k", "o", "n", "g", ",", " ", "p", "e", "o", "p", "l", "e", "'", "s", " ", "r", "e", "p", "u", "b", "l", "i", "c", " ", "o", "f", " ", "c", "h", "i", "n", "a">>,
         <<"H", "o", "n", "g", " ", "K", "o", "n", "g">>>> >>

\* normalize_address (07 lines 187-189)
normalize_address(addr) ==
    LET addr_clean == SelectSeq(StripStr(LowerStr(addr)), LAMBDA c : c \notin Punctuation)
    IN  TableGet(canonical_map, addr_clean, StripStr(addr))

ParsedLines(n) ==
    {ls \in [1..n -> DocLines] : \A i, j \in 1..n : i # j => ls[i] # ls[j]}

\* entries of the exhibits index: the ex3 entries carry the lines parsed
\* from their file, entries of another type are passed over
Ex3Entries(n) ==
    {[exhibit_type |-> "ex3", ticker |-> t, cik10 |-> "0000000001",
      accession |-> "A1", parsed_lines |-> ls] : t \in {"T1", "T2"}, ls \in ParsedLines(n)}
       \cup (IF n = 0
             THEN {[exhibit_type |-> "ex21", ticker |-> "T1", cik10 |-> "0000000001",
                    accession |-> "A1", parsed_lines |-> <<>>]}
             ELSE {})

\* the rows one entry adds to rows_out (07 lines 233-247), addresses from
\* position k on
RECURSIVE AddRows(_, _, _, _, _)
AddRows(ex, addresses, k, seen, out) ==
    IF k > Len(addresses) THEN [seen |-> seen, out |-> out]
    ELSE LET addr_lower == LowerStr(addresses[k].address_raw)
             key == <<ex.ticker, ex.cik10, addr_lower>>
         IN  IF key \in seen THEN AddRows(ex, addresses, k + 1, seen, out)
             ELSE AddRows(ex, addresses, k + 1, seen \cup {key},
                          Append(out, [parent_ticker |-> ex.ticker,
                                       parent_cik10 |-> ex.cik10,
                                       accession |-> ex.accession,
                                       address_raw |-> addresses[k].address_raw,
                                       address_type |-> addresses[k].address_type,
                                       parse_confidence |->
                                           IF ex.parsed_lines # <<>> THEN "html"
                                           ELSE "ocr_needed"]))

\* one iteration of the loop over exhibits (07 lines 196-247)
AddrEntry ==
    /\ apc = "loop"
    /\ Len(extracted) < Len(exhibits_index)
    /\ LET ex == exhibits_index[Len(extracted) + 1]
           found == extract_addresses(ex.parsed_lines)
           addresses == IF found = <<>>
                        THEN <<[address_raw |-> <<>>, address_type |-> "other"]>>
                        ELSE found
           r == AddRows(ex, addresses, 1, company_seen_addresses, rows_out)
       IN  IF ex.exhibit_type # "ex3"
           THEN /\ extracted' = Append(extracted, <<>>)
                /\ UNCHANGED <<company_seen_addresses, rows_out>>
           ELSE /\ extracted' = Append(extracted, found)
                /\ company_seen_addresses' = r.seen
                /\ rows_out' = r.out
    /\ UNCHANGED <<apc, exhibits_index, deduped_rows>>
    /\ UNCHANGED <<mvars, nvars, svars, qvars, rvars, cvars, evars, yvars>>

\* the rows kept by the final pass (07 lines 250-259), rows from k on
RECURSIVE DedupRows(_, _, _, _)
DedupRows(rs, k, seen, out) ==
    IF k > Len(rs) THEN out
    ELSE LET norm_addr == normalize_address(rs[k].address_raw)
             key == <<rs[k].parent_ticker, LowerStr(norm_addr)>>
         IN  IF key \in seen THEN DedupRows(rs, k + 1, seen, out)
             ELSE DedupRows(rs, k + 1, seen \cup {key},
                            Append(out, [rs[k] EXCEPT !.address_raw = norm_addr]))

\* deduplicate per company and write the csv (07 lines 249-271)
AddrWrite ==
    /\ apc = "loop"
    /\ Len(extracted) = Len(exhibits_index)
    /\ deduped_rows' = DedupRows(rows_out, 1, {}, <<>>)
    /\ apc' = "done"
    /\ UNCHANGED <<exhibits_index, extracted, company_seen_addresses, rows_out>>
    /\ UNCHANGED <<mvars, nvars, svars, qvars, rvars, cvars, evars, yvars>>

InitAddr ==
    /\ apc = "loop"
    /\ \E n1, n2 \in 0..MaxLines :
          /\ n1 + n2 <= MaxLines
          /\ \E e1 \in Ex3Entries(n1), e2 \in Ex3Entries(n2) :
                /\ e1.ticker = "T1"
                /\ exhibits_index \in {<<e1>>, <<e1, e2>>}
    /\ extracted = <<>>
    /\ company_seen_addresses = {}
    /\ rows_out = <<>>
    /\ deduped_rows = <<>>
    /\ IdleM /\ IdleN /\ IdleS /\ IdleQ /\ IdleR /\ IdleC /\ IdleE /\ IdleY

NextAddr == AddrEntry \/ AddrWrite

SpecAddr == InitAddr /\ [][NextAddr]_vars

(***************************************************************************)
(* Claims about the address extractor                                      *)
(***************************************************************************)
\* a text with letter case and punctuation left out
Fold(str) == LowerStr(SelectSeq(str, LAMBDA c : c \notin Punctuation))

Blocks(d) == [i \in DOMAIN extracted[d] |-> extracted[d][i].address_raw]

\* C15: address de-duplication.  The list produced for one document holds
\* no two blocks that are equal when letter case and punctuation are
\* ignored, and the rows written for one company hold no two such
\* addresses.
C15_NoDuplicateAddresses ==
    /\ \A d \in DOMAIN extracted : \A i, j \in DOMAIN extracted[d] :
          i # j => Fold(Blocks(d)[i]) # Fold(Blocks(d)[j])
    /\ \A i, j \in DOMAIN deduped_rows :
          (i # j /\ deduped_rows[i].parent_ticker = deduped_rows[j].parent_ticker)
             => Fold(deduped_rows[i].address_raw) # Fold(deduped_rows[j].address_raw)

\* the maximal runs of consecutive potential-address lines, as pairs of
\* first and last position
Runs(lines) ==
    LET addr == {k \in 1..Len(lines) : lines[k] \in AddressLines}
    IN  {r \in (1..Len(lines)) \X (1..Len(lines)) :
            /\ r[1] <= r[2]
            /\ r[1]..r[2] \subseteq addr
            /\ (r[1] - 1) \notin addr
            /\ (r[2] + 1) \notin addr}

\* the texts of the runs, in order
RunTexts(lines) ==
    LET runs == Runs(lines)
    IN  [n \in 1..Cardinality(runs) |->
            LET r == CHOOSE r \in runs : Cardinality({q \in runs : q[1] < r[1]}) = n - 1
            IN  JoinLines(SubSeq(lines, r[1], r[2]))]

\* a sequence of texts without those that occurred before, letter case
\* ignored
RECURSIVE FirstOccurrences(_)
FirstOccurrences(ts) ==
    IF ts = <<>> THEN <<>>
    ELSE LET front == SubSeq(ts, 1, Len(ts) - 1)
         IN  IF \E j \in DOMAIN front : LowerStr(front[j]) = LowerStr(ts[Len(ts)])
             THEN FirstOccurrences(front)
             ELSE Append(FirstOccurrences(front), ts[Len(ts)])

\* C18: block assembly.  For every document the blocks emitted are the
\* texts of the maximal runs of consecutive potential-address lines, each
\* the lines of its run joined by single spaces, a run open at the end of
\* the input included, in order of first occurrence (a text that was
\* emitted before, letter case ignored, is not emitted again).
C18_BlockAssembly ==
    \A d \in DOMAIN extracted :
        exhibits_index[d].exhibit_type = "ex3" =>
            Blocks(d) = FirstOccurrences(RunTexts(exhibits_index[d].parsed_lines))

\* a document of three lines: a block closed by the second line and a
\* block open at the end, both emitted
C18_Witness ==
    /\ Len(extracted) >= 1
    /\ Len(exhibits_index[1].parsed_lines) = 3
    /\ Runs(exhibits_index[1].parsed_lines) = {<<1, 1>>, <<3, 3>>}
    /\ Len(extracted[1]) = 2

\* the type the stated cues give a block text
CuedType(text) ==
    LET low == LowerStr(text)
    IN  IF Contains(low, <<"r", "e", "g", "i", "s", "t", "e", "r", "e", "d", " ", "o", "f", "f", "i", "c", "e">>)
        THEN "registered_office"
        ELSE IF ContainsAny(low, {<<"p", "r", "i", "n", "c", "i", "p", "a", "l", " ", "o", "f", "f", "i", "c", "e">>,
                                  <<"p", "r", "i", "n", "c", "i", "p", "a", "l", " ", "e", "x", "e", "c", "u", "t", "i", "v", "e", " ", "o", "f", "f", "i", "c", "e">>})
        THEN "principal_office"
        ELSE IF ContainsAny(low, {<<"c", "/", "o">>, <<"a", "g", "e", "n", "t">>})
        THEN "agent_address"
        ELSE "other"

\* C19: block typing.  Every emitted block has the type of the first cue
\* it contains, in the order registered office, principal (executive)
\* office, c/o or agent, and the type other when it contains none.
C19_BlockTyping ==
    \A d \in DOMAIN extracted : \A i \in DOMAIN extracted[d] :
        /\ extracted[d][i].address_type
              \in {"registered_office", "principal_office", "agent_address", "other"}
        /\ extracted[d][i].address_type = CuedType(extracted[d][i].address_raw)

(***************************************************************************)
(* scripts/06_parse_ex21_subs.py: parse_table_in_html.  A table is its     *)
(* header cells and its data rows, each cell the text of the cell.         *)
(***************************************************************************)
MaxCols == 3

Fields == {"subsidiary", "jurisdiction", "owner"}

\* fields_keywords (lines 70-74)
fields_keywords(field) ==
    CASE field = "subsidiary" -> <<<<"s", "u", "b", "s", "i", "d", "i", "a", "r">>, <<"c", "o", "m", "p", "a", "n", "y">>, <<"n", "a", "m", "e">>>>
      [] field = "jurisdiction" -> <<<<"j", "u", "r", "i", "s", "d", "i", "c", "t", "i", "o", "n">>, <<"c", "o", "u", "n", "t", "r", "y">>, <<"p", "l", "a", "c", "e">>, <<"s", "t", "a", "t", "e">>, <<"i", "n", "c", "o", "r", "p", "o", "r", "a", "t", "e", "d">>>>
      [] field = "owner" -> <<<<"o", "w", "n", "e", "r">>, <<"o", "w", "n", "e", "d">>, <<"p", "e", "r", "c", "e", "n", "t", "a", "g", "e">>, <<"%">>>>

\* the test that gives a matching keyword ten points (lines 82-87)
SpecificMatch(header_text, field) ==
    CASE field = "subsidiary" -> Contains(header_text, <<"s", "u", "b", "s", "i", "d", "i", "a", "r">>)
      [] field = "jurisdiction" ->
            \/ Contains(header_text, <<"j", "u", "r", "i", "s", "d", "i", "c", "t", "i", "o", "n">>)
            \/ Contains(header_text, <<"i", "n", "c", "o", "r", "p", "o", "r", "a", "t", "e", "d">>)
      [] field = "owner" ->
            \/ Contains(header_text, <<"o", "w", "n", "e", "r">>)
            \/ Contains(header_text, <<"%">>)

RECURSIVE SumScores(_, _, _, _)
SumScores(header_text, field, k, one) ==
    IF k = 0 THEN 0
    ELSE SumScores(header_text, field, k - 1, one)
         + (IF Contains(header_text, fields_keywords(field)[k])
            THEN (IF SpecificMatch(header_text, field) THEN 10 ELSE one)
            ELSE 0)

\* every matching keyword counts ten, specific or not
score_column_Flat(header_text, field) ==
    SumScores(header_text, field, Len(fields_keywords(field)), 10)

\* score_column (lines 77-90)
score_column(header_text, field) ==
    SumScores(header_text, field, Len(fields_keywords(field)), 1)

\* the loop over the header cells (lines 94-102): the best column so far,
\* numbered from 0, and its score
RECURSIVE BestColumn(_, _, _)
BestColumn(first_row, field, n) ==
    IF n = 0 THEN [best_col |-> -1, best_score |-> 0]
    ELSE LET b == BestColumn(first_row, field, n - 1)
             score == score_column(first_row[n], field)
         IN  IF first_row[n] # <<>> /\ score > b.best_score
             THEN [best_col |-> n - 1, best_score |-> score]
             ELSE b

\* field_column_map (lines 93-104)
field_column_map(first_row) ==
    LET best == [f \in Fields |-> BestColumn(first_row, f, Len(first_row)).best_col]
    IN  [f \in {g \in Fields : best[g] >= 0} |-> best[f]]

\* the value of a field in a data row (lines 118-125)
FieldValue(fmap, cols, field) ==
    IF field \in DOMAIN fmap /\ fmap[field] < Len(cols)
    THEN cols[fmap[field] + 1]
    ELSE <<>>

\* every row with a cell that is not blank gives a tuple
RowKept_AnyCell(fmap, cols) == \E i \in DOMAIN cols : cols[i] # <<>>

\* the two tests a data row passes to give a tuple (lines 110-111, 128)
RowKept(fmap, cols) ==
    /\ \E i \in DOMAIN cols : cols[i] # <<>>
    /\ FieldValue(fmap, cols, "subsidiary") # <<>>

\* the data rows (lines 107-133)
RECURSIVE ParseRows(_, _)
ParseRows(fmap, trs) ==
    IF trs = <<>> THEN <<>>
    ELSE LET cols == [i \in DOMAIN Head(trs) |-> clean_text(StripStr(Head(trs)[i]))]
             rest == ParseRows(fmap, Tail(trs))
         IN  IF ~RowKept(fmap, cols) THEN rest
             ELSE <<[subsidiary |-> FieldValue(fmap, cols, "subsidiary"),
                     jurisdiction |-> FieldValue(fmap, cols, "jurisdiction"),
                     ownership |-> FieldValue(fmap, cols, "owner")]>> \o rest

\* parse_table_in_html (lines 54-135).  A document is what soup.find and
\* find_all give for it: no table ("none"), a first table without rows
\* ("empty"), or a first table with a header row and data rows ("rows")
parse_table_in_html(table) ==
    IF table.found # "rows" THEN [field_column_map |-> <<>>, subsidiaries |-> <<>>]
    ELSE
    LET first_row == [i \in DOMAIN table.header |->
                         LowerStr(StripStr(table.header[i].text))]
        fmap == field_column_map(first_row)
    IN  [field_column_map |-> fmap, subsidiaries |-> ParseRows(fmap, table.rows)]

\* header cells, each with the score it has for every field and the fields
\* of which it holds a specific keyword
HeaderCells == {
    [text |-> <<"N", "a", "m", "e">>,
     score |-> [subsidiary |-> 1, jurisdiction |-> 0, owner |-> 0],
     specific |-> {}],
    [text |-> <<"S", "u", "b", "s", "i", "d", "i", "a", "r", "y", " ", "N", "a", "m", "e">>,
     score |-> [subsidiary |-> 20, jurisdiction |-> 0, owner |-> 0],
     specific |-> {"subsidiary"}],
    [text |-> <<"C", "o", "m", "p", "a", "n", "y", " ", "N", "a", "m", "e">>,
     score |-> [subsidiary |-> 2, jurisdiction |-> 0, owner |-> 0],
     specific |-> {}],
    [text |-> <<"C", "o", "m", "p", "a", "n", "y">>,
     score |-> [subsidiary |-> 1, jurisdiction |-> 0, owner |-> 0],
     specific |-> {}],
    [text |-> <<"J", "u", "r", "i", "s", "d", "i", "c", "t", "i", "o", "n">>,
     score |-> [subsidiary |-> 0, jurisdiction |-> 10, owner |-> 0],
     specific |-> {"jurisdiction"}],
    [text |-> <<"C", "o", "u", "n", "t", "r", "y">>,
     score |-> [subsidiary |-> 0, jurisdiction |-> 1, owner |-> 0],
     specific |-> {}],
    [text |-> <<"%", " ", "O", "w", "n", "e", "d">>,
     score |-> [subsidiary |-> 0, jurisdiction |-> 0, owner |-> 20],
     specific |-> {"owner"}],
    [text |-> <<"O", "w", "n", "e", "r", "s", "h", "i", "p">>,
     score |-> [subsidiary |-> 0, jurisdiction |-> 0, owner |-> 10],
     specific |-> {"owner"}],
    [text |-> <<" ">>,
     score |-> [subsidiary |-> 0, jurisdiction |-> 0, owner |-> 0],
     specific |-> {}],
    [text |-> <<"N", "o", "t", "e", "s">>,
     score |-> [subsidiary |-> 0, jurisdiction |-> 0, owner |-> 0],
     specific |-> {}]}

DataRows == {
    <<<<"A", "c", "m", "e", " ", " ", "H", "K">>, <<"H", "o", "n", "g", " ", "K", "o", "n", "g">>, <<"1", "0", "0", "%">>>>,
    <<<<"A", "c", "m", "e", " ", "B", "V", "I">>>>,
    <<<<>>, <<" ">>>>,
    <<<<" ">>, <<"C", "a", "y", "m", "a", "n">>, <<"5", "1", "%">>>>}

RECURSIVE SeqsUpTo(_, _)
SeqsUpTo(S, n) ==
    IF n = 0 THEN {<<>>}
    ELSE LET shorter == SeqsUpTo(S, n - 1)
         IN  shorter \cup {Append(s, x) : s \in {t \in shorter : Len(t) = n - 1}, x \in S}

Tables ==
    {[found |-> "rows", header |-> h, rows |-> r] :
        h \in SeqsUpTo(HeaderCells, MaxCols) \ {<<>>},
        r \in {<<>>} \cup {<<d>> : d \in DataRows}}

MaxDataRows == 2

HeaderCell(t) == CHOOSE h \in HeaderCells : h.text = t

\* header rows for the documents whose data rows vary
RowHeaders == {
    <<HeaderCell(<<"S", "u", "b", "s", "i", "d", "i", "a", "r", "y", " ", "N", "a", "m", "e">>), HeaderCell(<<"J", "u", "r", "i", "s", "d", "i", "c", "t", "i", "o", "n">>), HeaderCell(<<"%", " ", "O", "w", "n", "e", "d">>)>>,
    <<HeaderCell(<<"C", "o", "u", "n", "t", "r", "y">>), HeaderCell(<<"N", "a", "m", "e">>)>>,
    <<HeaderCell(<<"N", "o", "t", "e", "s">>), HeaderCell(<<"J", "u", "r", "i", "s", "d", "i", "c", "t", "i", "o", "n">>)>>,
    <<HeaderCell(<<"N", "a", "m", "e">>)>>,
    <<>>}

Documents ==
    {[found |-> f, header |-> <<>>, rows |-> <<>>] : f \in {"none", "empty"}}
    \cup {[found |-> "rows", header |-> h, rows |-> r] :
              h \in RowHeaders, r \in SeqsUpTo(DataRows, MaxDataRows)}

CallParseTable ==
    /\ cpc = "call"
    /\ cres' = parse_table_in_html(carg)
    /\ cpc' = "done"
    /\ UNCHANGED carg
    /\ UNCHANGED <<mvars, nvars, svars, qvars, rvars, avars, evars, yvars>>

InitHeader ==
    /\ cpc = "call"
    /\ carg \in Tables
    /\ cres = <<>>
    /\ IdleM /\ IdleN /\ IdleS /\ IdleQ /\ IdleR /\ IdleA /\ IdleE /\ IdleY

NextHeader == CallParseTable

SpecHeader == InitHeader /\ [][NextHeader]_vars

InitRows ==
    /\ cpc = "call"
    /\ carg \in Documents
    /\ cres = <<>>
    /\ IdleM /\ IdleN /\ IdleS /\ IdleQ /\ IdleR /\ IdleA /\ IdleE /\ IdleY

SpecRows == InitRows /\ [][NextHeader]_vars

(***************************************************************************)
(* Claims about the column assignment                                      *)
(***************************************************************************)
Max(S) == CHOOSE x \in S : \A y \in S : y <= x
Min(S) == CHOOSE x \in S : \A y \in S : x <= y

\* the score of column i of the header for a field
ColumnScore(i, f) == carg.header[i].score[f]

HeaderTexts == [i \in DOMAIN carg.header |-> carg.header[i].text]

\* C20: column assignment.  Each field is assigned the leftmost column of
\* the highest score for the field when that score is positive and no
\* column otherwise; when some header holds a specific keyword of the
\* field, the assigned column is such a header; of the headers Name and
\* Subsidiary Name the latter is the subsidiary column in either order.
C20_ColumnAssignment ==
    cpc = "done" =>
        LET cols == DOMAIN carg.header
            fmap == cres.field_column_map
        IN  /\ \A f \in Fields :
                LET best == Max({0} \cup {ColumnScore(i, f) : i \in cols})
                IN  IF best > 0
                    THEN /\ f \in DOMAIN fmap
                         /\ fmap[f] + 1 = Min({i \in cols : ColumnScore(i, f) = best})
                    ELSE f \notin DOMAIN fmap
            /\ \A f \in Fields :
                (\E i \in cols : f \in carg.header[i].specific)
                    => f \in carg.header[fmap[f] + 1].specific
            /\ HeaderTexts = <<<<"N", "a", "m", "e">>, <<"S", "u", "b", "s", "i", "d", "i", "a", "r", "y", " ", "N", "a", "m", "e">>>> => fmap["subsidiary"] = 1
            /\ HeaderTexts = <<<<"S", "u", "b", "s", "i", "d", "i", "a", "r", "y", " ", "N", "a", "m", "e">>, <<"N", "a", "m", "e">>>> => fmap["subsidiary"] = 0

\* the header Name, Subsidiary Name: the second column is the subsidiary
\* column
C20_Witness ==
    /\ cpc = "done"
    /\ HeaderTexts = <<<<"N", "a", "m", "e">>, <<"S", "u", "b", "s", "i", "d", "i", "a", "r", "y", " ", "N", "a", "m", "e">>>>
    /\ cres.field_column_map["subsidiary"] = 1

(***************************************************************************)
(* scripts/06_parse_ex21_subs.py: the main loop.  An entry of the exhibits *)
(* index carries, besides its keys, what the environment answers for it:   *)
(* whether the local file exists and can be read, whether the download     *)
(* succeeds, and what the document holds.                                  *)
(***************************************************************************)
MaxReports == 2

\* the documents: a table of subsidiaries, a page without a table, and a
\* table with bytes that are not UTF-8
Contents == {"table", "no_table", "table_bad_bytes"}

Accessions == <<"A1", "A2", "A3", "A4">>

ReportEntries(k) ==
    {[exhibit_type |-> "ex3", ticker |-> "T1", cik10 |-> "0000000001",
      accession |-> Accessions[k], exhibit_label |-> "EX-3.1", year |-> 2023,
      localPath |-> <<"p", k>>, href |-> <<"h", k>>,
      local |-> "readable", download |-> "ok", content |-> "no_table"]}
    \cup
    [exhibit_type : {"ex21"}, ticker : {"T1"}, cik10 : {"0000000001"},
     accession : {Accessions[k]}, exhibit_label : {"EX-21.1"}, year : {2023},
     localPath : {<<"p", k>>}, href : {<<"h", k>>},
     local : {"absent", "unreadable", "readable"},
     download : {"ok", "request_error"},
     content : Contents]

RECURSIVE ReportLists(_)
ReportLists(n) ==
    IF n = 0 THEN {<<>>}
    ELSE LET shorter == ReportLists(n - 1)
         IN  shorter \cup {Append(s, e) : s \in {t \in shorter : Len(t) = n - 1},
                                          e \in ReportEntries(n)}

\* bytes.decode("utf-8", errors="ignore") (line 175): the bytes that are
\* not UTF-8 are dropped and the rest is kept
Decode(content) == IF content = "table_bad_bytes" THEN "table" ELSE content

\* the rows parse_table_in_html returns for a decoded document
ParsedSubsidiaries(html_content) ==
    IF html_content = "table"
    THEN <<[subsidiary |-> "Acme HK", jurisdiction |-> "Hong Kong", ownership |-> "100%"]>>
    ELSE <<>>

\* lines 153-162: the content read from the local file, None without one
\* or when the read fails
ReadLocal(entry) == IF entry.local = "readable" THEN entry.content ELSE None

\* lines 182-194
Ex21Rows(entry, subsidiaries) ==
    [i \in DOMAIN subsidiaries |->
        [parent_ticker |-> entry.ticker, parent_cik10 |-> entry.cik10,
         accession |-> entry.accession, exhibit_label |-> entry.exhibit_label,
         exhibit_year |-> entry.year,
         subsidiary_name_raw |-> subsidiaries[i].subsidiary,
         jurisdiction_raw |-> subsidiaries[i].jurisdiction,
         ownership_raw |-> subsidiaries[i].ownership,
         footnote_marker |-> "", source_path |-> entry.localPath]]

\* one pass of the loop body (lines 141-194)
Ex21Entry ==
    /\ epc = "loop"
    /\ eidx < Len(reports)
    /\ LET entry == reports[eidx + 1]
           local_content == ReadLocal(entry)
           read_warn == IF entry.local = "unreadable"
                        THEN <<[level |-> "WARN", what |-> "read", local_path |-> entry.localPath]>>
                        ELSE <<>>
       IN  IF entry.exhibit_type # "ex21"
           THEN UNCHANGED <<ex21_index, elog>>
           ELSE IF local_content = None /\ entry.download = "request_error"
           THEN /\ elog' = elog \o read_warn
                              \o <<[level |-> "WARN", what |-> "download", href |-> entry.href]>>
                /\ UNCHANGED ex21_index
           ELSE /\ elog' = elog \o read_warn
                /\ ex21_index' = ex21_index
                      \o Ex21Rows(entry, ParsedSubsidiaries(Decode(entry.content)))
    /\ eidx' = eidx + 1
    /\ UNCHANGED <<epc, reports, ewritten>>
    /\ UNCHANGED <<mvars, nvars, svars, qvars, rvars, cvars, avars, yvars>>

\* lines 196-198
Ex21Write ==
    /\ epc = "loop"
    /\ eidx = Len(reports)
    /\ ewritten' = ex21_index
    /\ epc' = "done"
    /\ UNCHANGED <<reports, eidx, ex21_index, elog>>
    /\ UNCHANGED <<mvars, nvars, svars, qvars, rvars, cvars, avars, yvars>>

InitEx21 ==
    /\ epc = "loop"
    /\ reports \in ReportLists(MaxReports)
    /\ eidx = 0
    /\ ex21_index = <<>>
    /\ elog = <<>>
    /\ ewritten = <<>>
    /\ IdleM /\ IdleN /\ IdleS /\ IdleQ /\ IdleR /\ IdleC /\ IdleA /\ IdleY

NextEx21 == Ex21Entry \/ Ex21Write

SpecEx21 == InitEx21 /\ [][NextEx21]_vars

(***************************************************************************)
(* Claims about the exhibit parser's failures                              *)
(***************************************************************************)
\* a subsidiary list that cannot be read or cannot be decoded
FailedDocument(entry) ==
    /\ entry.exhibit_type = "ex21"
    /\ \/ entry.local # "readable" /\ entry.download = "request_error"
       \/ entry.content = "table_bad_bytes"

\* a logged message carrying the context of an entry
ErrorEntryFor(m, entry) ==
    /\ {"ticker", "accession", "exhibit_label", "source_path"} \subseteq DOMAIN m
    /\ m.ticker = entry.ticker
    /\ m.accession = entry.accession
    /\ m.exhibit_label = entry.exhibit_label
    /\ m.source_path = entry.localPath

\* C16: failures are contained.  Every document passed by the loop that
\* could not be read or decoded has an error entry with its ticker,
\* accession, exhibit label and source path and has no row in the list,
\* and the table written at the end is the list.
C16_FailuresContained ==
    /\ \A k \in 1..eidx :
          FailedDocument(reports[k]) =>
              /\ \E i \in DOMAIN elog : ErrorEntryFor(elog[i], reports[k])
              /\ \A i \in DOMAIN ex21_index :
                    ex21_index[i].accession # reports[k].accession
    /\ epc = "done" => ewritten = ex21_index

(***************************************************************************)
(* Claims about the rows of an exhibit table                               *)
(***************************************************************************)
\* the text of a data cell as the parser keeps it
Cleaned(cell) ==
    CASE cell = <<"A", "c", "m", "e", " ", " ", "H", "K">> -> <<"A", "c", "m", "e", " ", "H", "K">>
      [] cell = <<" ">> -> <<>>
      [] OTHER -> cell

\* the value data row k has in the column assigned to a field, the empty
\* string when no column is assigned or the row is too short
AssignedValue(k, f) ==
    LET fmap == cres.field_column_map
    IN  IF f \in DOMAIN fmap /\ fmap[f] + 1 \in DOMAIN carg.rows[k]
        THEN Cleaned(carg.rows[k][fmap[f] + 1])
        ELSE <<>>

NamedRows == {k \in DOMAIN carg.rows : AssignedValue(k, "subsidiary") # <<>>}

C21_WitnessNoTable == cpc = "done" /\ carg.found = "none" /\ cres.subsidiaries = <<>>

(***************************************************************************)
(* Further claims about the quality checks                                 *)
(***************************************************************************)
\* the defects of a code logged so far
ErrorsOf(code) == SelectSeq(errors, LAMBDA e : e.error_code = code)

\* the check of the addresses master has run
AddressesChecked == qpc \in {"exhibits", "stats", "report", "done", "aborted"}

\* the check of the exhibits has run
ExhibitsChecked == qpc \in {"stats", "report", "done", "aborted"}

LowRows(file) == {i \in DOMAIN file.rows : file.rows[i].parse_confidence < MIN_PARSE_CONFIDENCE}

\* C26: confidence thresholding.  Once the subsidiary and the address
\* tables are checked, there is one LOW_PARSE_CONFIDENCE defect for every
\* row of either table whose confidence is below the threshold, and no
\* other.
C26_LowConfidenceFlagged ==
    AddressesChecked =>
        Len(ErrorsOf("LOW_PARSE_CONFIDENCE"))
            = Cardinality(LowRows(qin.subs)) + Cardinality(LowRows(qin.addresses))

\* the rows of the addresses master that hold an address of a parent
AddressesOf(parent) ==
    {i \in DOMAIN qin.addresses.rows :
        /\ qin.addresses.rows[i].entity_type = "parent"
        /\ qin.addresses.rows[i].entity_id = parent.parent_cik10
        /\ qin.addresses.rows[i].address_raw # NaN}

\* C27: referential check.  With both tables present, an offshore parent
\* has exactly one NO_ADDRESS defect when the addresses master holds no
\* address for it (a row with a null address is no address) and none when
\* it holds one.
C27_NoAddressIffNone ==
    (AddressesChecked /\ qin.addresses.exists /\ qin.parents.exists) =>
        \A i \in DOMAIN qin.parents.rows :
            LET parent == qin.parents.rows[i]
                defects == {k \in DOMAIN errors :
                               /\ errors[k].error_code = "NO_ADDRESS"
                               /\ errors[k].ticker = parent.parent_ticker}
            IN  (Len(qin.parents.rows) = 1
                   /\ parent.incorp_country_iso3 \in OFFSHORE_JURISDICTIONS)
                  => Cardinality(defects) = (IF AddressesOf(parent) = {} THEN 1 ELSE 0)

\* the tickers the exhibit check has to flag: with an entry in the index,
\* without an ex21 entry, and in the identifier map
FlaggedTickers ==
    {t \in {qin.exhibits.rows[i].ticker : i \in DOMAIN qin.exhibits.rows} :
        /\ \A i \in DOMAIN qin.exhibits.rows :
              qin.exhibits.rows[i].ticker = t => qin.exhibits.rows[i].exhibit_type # "ex21"
        /\ \E j \in DOMAIN qin.cik_map.rows : qin.cik_map.rows[j].ticker = t}

\* C30: scope of NO_EX21_FOUND.  Once the exhibits are checked, the tickers
\* with a NO_EX21_FOUND defect are those with an entry in the exhibit
\* index, none of type ex21, that are in the identifier map, each with one
\* defect; a ticker without an entry or outside the map has none.
C30_NoEx21Scope ==
    ExhibitsChecked =>
        LET found == ErrorsOf("NO_EX21_FOUND")
        IN  /\ {found[k].ticker : k \in DOMAIN found} = FlaggedTickers
            /\ \A j, k \in DOMAIN found : found[j].ticker = found[k].ticker => j = k

\* a ticker of the map without any entry in the index has no defect while
\* another ticker, with an ex3 entry only, has one
C30_Witness ==
    /\ ExhibitsChecked
    /\ qin.cik_map.exists /\ Len(qin.cik_map.rows) = 2
    /\ \E k \in DOMAIN errors :
          errors[k].error_code = "NO_EX21_FOUND" /\ errors[k].ticker = "T2"
    /\ \A i \in DOMAIN qin.exhibits.rows : qin.exhibits.rows[i].ticker # "T1"
    /\ \A k \in DOMAIN errors : errors[k].ticker # "T1"

(***************************************************************************)
(* 08a_parents_master_merge.py from its two tables to its output, and the  *)
(* quality checks run on that output.  The roster, the submission files    *)
(* and the EX-21 table are empty here.                                     *)
(***************************************************************************)
MaxParents == 2

ParentTickers == {"T1", "T2"}

\* rows of dei_facts_<date>.csv (04b lines 161-169): one per company
\* directory, with the country the filing states
DeiRows ==
    [parent_ticker : ParentTickers, registrant_name : {"N1"},
     incorp_country : {NaN, "China"}, incorp_state_raw : {"S1"}, legal_form : {NaN}]

\* rows of cik_map_<date>.csv (02 lines 58-64)
CikRows == [parent_ticker : ParentTickers, parent_cik10 : {"0000000001", "PENDING"}]

DeiTables ==
    {t \in SeqsUpTo(DeiRows, MaxParents) :
        \A i, j \in DOMAIN t : t[i].parent_ticker = t[j].parent_ticker => i = j}

CikTables == SeqsUpTo(CikRows, MaxParents)

\* pd.read_csv(CIK_FILE) (line 52): identifiers are read as numbers when
\* every cell is numeric
ReadCikMap(df) ==
    [i \in DOMAIN df |-> [df[i] EXCEPT !.parent_cik10 = ReadId(df, "parent_cik10", @)]]

\* the rows pd.merge(..., how="left") gives for one row of the left table
RECURSIVE JoinOne(_, _)
JoinOne(left_row, right) ==
    IF right = <<>> THEN <<>>
    ELSE (IF Head(right).parent_ticker = left_row.parent_ticker
          THEN <<left_row @@ [parent_cik10 |-> Head(right).parent_cik10]>>
          ELSE <<>>) \o JoinOne(left_row, Tail(right))

\* pd.merge(dei_df, cik_df[["parent_ticker", "parent_cik10"]],
\* on="parent_ticker", how="left") (lines 57-62)
RECURSIVE LeftJoin(_, _)
LeftJoin(left, right) ==
    IF left = <<>> THEN <<>>
    ELSE LET matched == JoinOne(Head(left), right)
         IN  (IF matched = <<>> THEN <<Head(left) @@ [parent_cik10 |-> NaN]>>
              ELSE matched)
             \o LeftJoin(Tail(left), right)

\* a column of whole numbers with a missing value is a column of floats
FloatIds(df) ==
    IF /\ \E i \in DOMAIN df : df[i].parent_cik10 = NaN
       /\ \A i \in DOMAIN df : df[i].parent_cik10 \in {NaN, "1"}
    THEN [i \in DOMAIN df |->
             [df[i] EXCEPT !.parent_cik10 = IF @ = "1" THEN "1.0" ELSE @]]
    ELSE df

\* the other inputs of the script, empty
ParentsEnv ==
    [files |-> InputFiles,
     uscc_lookup |-> [t \in ParentTickers |-> Absent],
     submissions |-> [t \in ParentTickers |-> NoFile],
     ex21_df |-> <<>>]

\* the loads and the merge (lines 51-62)
ParentsLoad ==
    /\ jpc = "load"
    /\ merged_df' = FloatIds(LeftJoin(dei_df, ReadCikMap(cik_df)))
    /\ jpc' = "loop"
    /\ UNCHANGED <<dei_df, cik_df, parent_records, parents_written>>
    /\ UNCHANGED <<mvars, nvars, svars, qvars, rvars, cvars, avars, evars, kvars>>

\* one iteration of the loop over merged_df (lines 121-219)
ParentsRecord ==
    /\ jpc = "loop"
    /\ Len(parent_records) < Len(merged_df)
    /\ parent_records' = Append(parent_records,
           BuildRecord(ParentsEnv, merged_df[Len(parent_records) + 1], NoLatest))
    /\ UNCHANGED <<jpc, dei_df, cik_df, merged_df, parents_written>>
    /\ UNCHANGED <<mvars, nvars, svars, qvars, rvars, cvars, avars, evars, kvars>>

\* df_out.to_csv (lines 224-225)
ParentsSave ==
    /\ jpc = "loop"
    /\ Len(parent_records) = Len(merged_df)
    /\ parents_written' = [i \in DOMAIN parent_records |->
                              [parent_records[i] EXCEPT !.sources_used = JoinTags(@)]]
    /\ jpc' = "done"
    /\ UNCHANGED <<dei_df, cik_df, merged_df, parent_records>>
    /\ UNCHANGED <<mvars, nvars, svars, qvars, rvars, cvars, avars, evars, kvars>>

\* pd.read_csv of the parents master by the checker (09 line 139): an
\* empty cell is NaN, the identifier is read as a string
ReadParents(tbl) ==
    [i \in DOMAIN tbl |->
        [parent_ticker |-> tbl[i].parent_ticker,
         parent_cik10 |-> tbl[i].parent_cik10,
         incorp_country_iso3 |-> IF tbl[i].incorp_country_iso3 = ""
                                 THEN NaN ELSE tbl[i].incorp_country_iso3]]

\* QCChecker() and run_all_checks on the files of the run (09 lines 71-84,
\* 570-577); no subsidiary, address or exhibit file is present
QcStart ==
    /\ jpc = "done"
    /\ qpc = "idle"
    /\ qin' = [parents |-> File(ReadParents(parents_written)),
               subs |-> Missing, addresses |-> Missing, exhibits |-> Missing,
               cik_map |-> File([i \in DOMAIN cik_df |->
                                    [ticker |-> cik_df[i].parent_ticker,
                                     cik10 |-> cik_df[i].parent_cik10]])]
    /\ stats' = InitStats
    /\ qpc' = "parents"
    /\ UNCHANGED <<errors, warnings, saved, status>>
    /\ UNCHANGED <<mvars, nvars, svars, xvars>>

InitParents ==
    /\ jpc = "load"
    /\ dei_df \in DeiTables
    /\ cik_df \in CikTables
    /\ merged_df = <<>>
    /\ parent_records = <<>>
    /\ parents_written = <<>>
    /\ IdleM /\ IdleN /\ IdleS /\ IdleQ /\ IdleR /\ IdleC /\ IdleA /\ IdleE /\ IdleK

NextParents ==
    \/ ParentsLoad \/ ParentsRecord \/ ParentsSave \/ QcStart
    \/ QcParents \/ QcSubs \/ QcAddresses \/ QcExhibits \/ QcStatistics \/ QcFinish

SpecParents == InitParents /\ [][NextParents]_vars

(***************************************************************************)
(* Claims about the parent records                                         *)
(***************************************************************************)
MapTickers == {cik_df[i].parent_ticker : i \in DOMAIN cik_df}

\* C24: one parent record per resolved ticker.  The table written holds
\* exactly one record for each ticker of the identifier map and no record
\* of another ticker.
C24_OneRecordPerMappedTicker ==
    jpc = "done" =>
        /\ \A t \in MapTickers :
              Cardinality({k \in DOMAIN parents_written :
                              parents_written[k].parent_ticker = t}) = 1
        /\ \A k \in DOMAIN parents_written :
              parents_written[k].parent_ticker \in MapTickers

\* C29: the parent merge carries no incorporation country.  Every record
\* written has a blank incorp_country_iso3, whatever country the scraped
\* facts state; once the checker has read a non-empty table, every parent
\* has a MISSING_INCORP_COUNTRY defect, the status is never pass, and the
\* status returned is fail.
C29_NoCountryThenFail ==
    /\ \A k \in DOMAIN parents_written : parents_written[k].incorp_country_iso3 = ""
    /\ (qpc \notin {"idle", "parents"} /\ parents_written # <<>>) =>
          /\ Len(ErrorsOf("MISSING_INCORP_COUNTRY")) = Len(parents_written)
          /\ \A k \in DOMAIN parents_written :
                \E e \in DOMAIN errors :
                    /\ errors[e].error_code = "MISSING_INCORP_COUNTRY"
                    /\ errors[e].ticker = parents_written[k].parent_ticker
          /\ status # 0
          /\ qpc = "done" => status = 1

\* a parent whose scraped facts state a country, written without it, and a
\* run of the checker on the table that returned fail
C29_Witness ==
    /\ qpc = "done"
    /\ status = 1
    /\ \E i \in DOMAIN merged_df : merged_df[i].incorp_country = "China"
    /\ Len(parents_written) = 2

(***************************************************************************)
(* 08c_addresses_master_merge.py, run on the parents table 08a wrote, a    *)
(* subsidiary table and the charter addresses                              *)
(***************************************************************************)
MaxAddresses == 2

\* rows of subs_master_<date>.csv, with the columns the script reads
SubsMasterRows ==
    [sub_uuid : {"U1"}, jurisdiction_iso3 : {"CHN", NaN}, accession : {"ACC1"}]

SubsMasterTables == {<<>>} \cup {<<r>> : r \in SubsMasterRows}

\* rows of charter_addresses_raw_<date>.csv (07 lines 236-243); the texts
\* have no comma and no digit
CharterRows ==
    [parent_ticker : ParentTickers, parent_cik10 : {"0000000001", "PENDING"},
     address_raw : {"Beijing", "Shanghai"}, address_type : {"registered"}]

\* a company has an address once (07 lines 229-235)
CharterTables ==
    {t \in SeqsUpTo(CharterRows, MaxAddresses) :
        \A i, j \in DOMAIN t :
            (/\ t[i].parent_ticker = t[j].parent_ticker
             /\ t[i].parent_cik10 = t[j].parent_cik10
             /\ t[i].address_raw = t[j].address_raw) => i = j}

\* pd.NA, the value line 76 gives every subsidiary
NA == "<NA>"

\* generate_addr_id (lines 18-20): the md5 of the text hashed, kept as the
\* text
generate_addr_id(entity_id, address_raw) ==
    entity_id \o "_" \o (IF address_raw = "" THEN "" ELSE address_raw)

\* parse_address (lines 22-55) of a missing value, and of a text with one
\* part and no run of digits: nothing but the text is filled
parse_address(address_raw) ==
    [address_raw |-> address_raw, addr_line |-> None, locality |-> None,
     region |-> None, postal_code |-> None]

\* normalize_cik (lines 57-64)
normalize_cik(val) ==
    IF val = NaN THEN "n/a"
    ELSE IF val \in {"1", "0000000001"} THEN "0000000001"
    ELSE "n/a"

\* str() of a cell, as line 152 applies it
PyStr(v) == IF v = NaN THEN "nan" ELSE v

\* pd.read_csv of the identifier column of parents_master (line 92): whole
\* numbers when every cell is a whole number, floats when every cell is a
\* number or empty, text otherwise
ReadParentId(tbl, v) ==
    LET cells == {tbl[i].parent_cik10 : i \in DOMAIN tbl}
    IN  IF cells \subseteq {"1", "0000000001"} THEN "1"
        ELSE IF cells \subseteq {"1", "0000000001", "1.0", NaN}
             THEN (IF v = NaN THEN NaN ELSE "1.0")
             ELSE v

\* subs_df (lines 74-84)
LoadSubs(tbl) ==
    [i \in DOMAIN tbl |->
        [entity_type |-> "subsidiary", entity_id |-> tbl[i].sub_uuid,
         address_raw |-> NA, address_type |-> NaN,
         country_iso3 |-> tbl[i].jurisdiction_iso3,
         accession |-> tbl[i].accession, latest_20f_accession |-> NaN]]

\* parents_df before the merge (lines 92-96); the key of the merge is kept
\* as parent_cik10
LoadParents(tbl) ==
    [i \in DOMAIN tbl |->
        [entity_type |-> "parent",
         entity_id |-> ReadParentId(tbl, tbl[i].parent_cik10),
         parent_cik10 |-> normalize_cik(ReadParentId(tbl, tbl[i].parent_cik10)),
         country_iso3 |-> IF tbl[i].incorp_country_iso3 = ""
                          THEN NaN ELSE tbl[i].incorp_country_iso3,
         accession |-> NaN,
         latest_20f_accession |-> IF tbl[i].latest_20f_accession \in {None, ""}
                                  THEN NaN ELSE tbl[i].latest_20f_accession]]

\* addr_df (lines 104-106)
LoadAddresses(tbl) ==
    [i \in DOMAIN tbl |->
        [tbl[i] EXCEPT !.parent_cik10 = normalize_cik(ReadId(tbl, "parent_cik10", @))]]

\* the rows the left merge gives for one parent (lines 112-116)
RECURSIVE AddressesOfParent(_, _)
AddressesOfParent(parent, addr_df) ==
    IF addr_df = <<>> THEN <<>>
    ELSE (IF Head(addr_df).parent_cik10 = parent.parent_cik10
          THEN <<parent @@ [address_raw |-> Head(addr_df).address_raw,
                            address_type |-> Head(addr_df).address_type]>>
          ELSE <<>>) \o AddressesOfParent(parent, Tail(addr_df))

\* parents_df.merge(addr_df[[...]], on="parent_cik10", how="left")
RECURSIVE MergeAddresses(_, _)
MergeAddresses(parents_df, addr_df) ==
    IF parents_df = <<>> THEN <<>>
    ELSE LET matched == AddressesOfParent(Head(parents_df), addr_df)
         IN  (IF matched = <<>>
              THEN <<Head(parents_df) @@ [address_raw |-> NaN, address_type |-> NaN]>>
              ELSE matched)
             \o MergeAddresses(Tail(parents_df), addr_df)

\* the script starts on the files of the run: parents_master is the file
\* 08a saved
AddrStart ==
    /\ kpc = "idle"
    /\ jpc = "done"
    /\ parents_master' = parents_written
    /\ kpc' = "load"
    /\ UNCHANGED <<subs_master, charter_addresses, addresses_master>>
    /\ UNCHANGED <<mvars, nvars, svars, qvars, rvars, cvars, avars, evars, jvars>>

\* the loads, the merge and the concat (lines 69-129)
AddrCombine ==
    /\ kpc = "load"
    /\ addresses_master' =
          LoadSubs(subs_master)
          \o MergeAddresses(LoadParents(parents_master),
                            LoadAddresses(charter_addresses))
    /\ kpc' = "parse"
    /\ UNCHANGED <<subs_master, parents_master, charter_addresses>>
    /\ UNCHANGED <<mvars, nvars, svars, qvars, rvars, cvars, avars, evars, jvars>>

\* the parse of every address (lines 134-136); "not address_raw" of line
\* 27 raises TypeError on pd.NA
AddrParse ==
    /\ kpc = "parse"
    /\ IF \E i \in DOMAIN addresses_master : addresses_master[i].address_raw = NA
       THEN /\ kpc' = "aborted"
            /\ UNCHANGED addresses_master
       ELSE /\ kpc' = "columns"
            /\ addresses_master' =
                  [i \in DOMAIN addresses_master |->
                      parse_address(addresses_master[i].address_raw)
                      @@ addresses_master[i]]
    /\ UNCHANGED <<subs_master, parents_master, charter_addresses>>
    /\ UNCHANGED <<mvars, nvars, svars, qvars, rvars, cvars, avars, evars, jvars>>

\* the added columns, the columns kept and the save (lines 142-180)
AddrSave ==
    /\ kpc = "columns"
    /\ addresses_master' =
          [i \in DOMAIN addresses_master |->
              LET x == addresses_master[i]
              IN  [entity_type |-> x.entity_type, entity_id |-> x.entity_id,
                   address_raw |-> x.address_raw, addr_line |-> x.addr_line,
                   locality |-> x.locality, region |-> x.region,
                   postal_code |-> x.postal_code,
                   country_iso3 |-> x.country_iso3,
                   source_accession |-> IF x.entity_type = "parent"
                                        THEN x.latest_20f_accession
                                        ELSE x.accession,
                   address_type |-> x.address_type,
                   parse_confidence |-> NaN,
                   addr_id |-> generate_addr_id(PyStr(x.entity_id),
                                                PyStr(x.address_raw))]]
    /\ kpc' = "done"
    /\ UNCHANGED <<subs_master, parents_master, charter_addresses>>
    /\ UNCHANGED <<mvars, nvars, svars, qvars, rvars, cvars, avars, evars, jvars>>

InitAddrMaster ==
    /\ jpc = "load"
    /\ dei_df \in DeiTables
    /\ cik_df \in CikTables
    /\ merged_df = <<>>
    /\ parent_records = <<>>
    /\ parents_written = <<>>
    /\ kpc = "idle"
    /\ subs_master \in SubsMasterTables
    /\ charter_addresses \in CharterTables
    /\ parents_master = <<>>
    /\ addresses_master = <<>>
    /\ IdleM /\ IdleN /\ IdleS /\ IdleQ /\ IdleR /\ IdleC /\ IdleA /\ IdleE

NextAddrMaster ==
    \/ ParentsLoad \/ ParentsRecord \/ ParentsSave
    \/ AddrStart \/ AddrCombine \/ AddrParse \/ AddrSave

SpecAddrMaster == InitAddrMaster /\ [][NextAddrMaster]_vars

(***************************************************************************)
(* Claims about the address records                                        *)
(***************************************************************************)
\* C25: in the addresses master table written, no two rows have the same
\* derived address identifier, parents with an unresolved identifier and
\* entities without an address included.
C25_AddrIdUnique ==
    kpc = "done" =>
        \A i, j \in DOMAIN addresses_master :
            addresses_master[i].addr_id = addresses_master[j].addr_id => i = j

====
